---- MODULE Spec2Model ----
(***************************************************************************)
(* Model of of-tui: the background verification pipeline (app.py) and the  *)
(* entry metadata cache / entry browser (entry_meta.py, browser.py).       *)
(***************************************************************************)
EXTENDS Integers, Sequences, FiniteSets, TLC

(***************************************************************************)
(* Bounds                                                                  *)
(***************************************************************************)
NumFiles == 3
MaxWorkers == 2
MaxWrites == 1
MaxReadErrors == 1
MaxItems == 4
MaxHeight == 8
MaxPromptKeys == 5

(***************************************************************************)
(* Text: a Python str is the sequence of its characters                    *)
(***************************************************************************)
Digits == {"0", "1", "2", "3", "4", "5", "6", "7", "8", "9"}
UpperCase == <<"A", "B", "C", "D", "E", "F", "G", "H", "I", "J", "K", "L", "M", "N", "O", "P", "Q", "R", "S", "T", "U", "V", "W", "X", "Y", "Z">>
LowerCase == <<"a", "b", "c", "d", "e", "f", "g", "h", "i", "j", "k", "l", "m", "n", "o", "p", "q", "r", "s", "t", "u", "v", "w", "x", "y", "z">>

\* str.isspace of one character
IsSpace(c) == c \in {" ", "\t", "\n", "\r"}

\* str.lower
LowerChar(c) ==
    IF \E i \in 1..Len(UpperCase) : UpperCase[i] = c
    THEN LowerCase[CHOOSE i \in 1..Len(UpperCase) : UpperCase[i] = c]
    ELSE c

Lower(s) == [i \in 1..Len(s) |-> LowerChar(s[i])]

\* `sub in s`
Contains(s, sub) ==
    \E i \in 0..(Len(s) - Len(sub)) : SubSeq(s, i + 1, i + Len(sub)) = sub

\* str.lstrip / str.rstrip / str.strip
RECURSIVE LStrip(_)
LStrip(s) == IF s # <<>> /\ IsSpace(Head(s)) THEN LStrip(Tail(s)) ELSE s

RECURSIVE RStrip(_)
RStrip(s) ==
    IF s # <<>> /\ IsSpace(s[Len(s)]) THEN RStrip(SubSeq(s, 1, Len(s) - 1)) ELSE s

Strip(s) == LStrip(RStrip(s))

\* str.rstrip(c)
RECURSIVE RStripChar(_, _)
RStripChar(s, c) ==
    IF s # <<>> /\ s[Len(s)] = c THEN RStripChar(SubSeq(s, 1, Len(s) - 1), c) ELSE s

\* str.replace(a, b) for single characters
ReplaceChar(s, a, b) == [i \in 1..Len(s) |-> IF s[i] = a THEN b ELSE s[i]]

\* str.split(c): the pieces between the occurrences of c
RECURSIVE SplitOn(_, _)
SplitOn(s, c) ==
    IF \A i \in 1..Len(s) : s[i] # c
    THEN << s >>
    ELSE LET k == CHOOSE i \in 1..Len(s) : s[i] = c /\ \A j \in 1..(i - 1) : s[j] # c
         IN  << SubSeq(s, 1, k - 1) >> \o SplitOn(SubSeq(s, k + 1, Len(s)), c)

\* str.split(): the maximal runs of non-whitespace characters
RECURSIVE SplitWS(_)
SplitWS(s) ==
    LET t == LStrip(s)
    IN  IF t = <<>> THEN <<>>
        ELSE IF \A i \in 1..Len(t) : ~IsSpace(t[i]) THEN << t >>
        ELSE LET k == CHOOSE i \in 1..Len(t) :
                          IsSpace(t[i]) /\ \A j \in 1..(i - 1) : ~IsSpace(t[j])
             IN  << SubSeq(t, 1, k - 1) >> \o SplitWS(SubSeq(t, k, Len(t)))

\* "sep".join(parts) for a one-character separator
RECURSIVE Join(_, _)
Join(parts, c) ==
    IF parts = <<>> THEN <<>>
    ELSE IF Len(parts) = 1 THEN parts[1]
    ELSE parts[1] \o << c >> \o Join(Tail(parts), c)

\* digits, possibly grouped by single underscores (Python numeric literal)
IsDigitPart(s) ==
    /\ s # <<>>
    /\ \A i \in 1..Len(s) : s[i] \in Digits \cup {"_"}
    /\ s[1] # "_"
    /\ s[Len(s)] # "_"
    /\ \A i \in 1..(Len(s) - 1) : ~(s[i] = "_" /\ s[i + 1] = "_")

Unsigned(s) == IF s # <<>> /\ s[1] \in {"+", "-"} THEN Tail(s) ELSE s

\* int(s) does not raise ValueError
IsInt(s) == IsDigitPart(Unsigned(Strip(s)))

IsMantissa(m) ==
    IF ~Contains(m, <<".">>) THEN IsDigitPart(m)
    ELSE LET parts == SplitOn(m, ".")
         IN  /\ Len(parts) = 2
             /\ parts[1] = <<>> \/ IsDigitPart(parts[1])
             /\ parts[2] = <<>> \/ IsDigitPart(parts[2])
             /\ ~(parts[1] = <<>> /\ parts[2] = <<>>)

\* float(s) does not raise ValueError
IsFloat(s) ==
    LET u == Lower(Unsigned(Strip(s)))
    IN  \/ u \in { <<"i", "n", "f">>, <<"i", "n", "f", "i", "n", "i", "t", "y">>, <<"n", "a", "n">> }
        \/ IF ~Contains(u, <<"e">>) THEN IsMantissa(u)
           ELSE LET parts == SplitOn(u, "e")
                IN  /\ Len(parts) = 2
                    /\ IsMantissa(parts[1])
                    /\ IsDigitPart(Unsigned(parts[2]))

(***************************************************************************)
(* Validators (validation.py) and type inference (entry_meta.py)           *)
(***************************************************************************)
\* v.strip().rstrip(";").strip()
StripSemi(v) == Strip(RStripChar(Strip(v), ";"))

BoolWords == { <<"o", "n">>, <<"o", "f", "f">>, <<"t", "r", "u", "e">>, <<"f", "a", "l", "s", "e">>, <<"y", "e", "s">>, <<"n", "o">>, <<"0">>, <<"1">> }

\* vector_values(value) returns None: "( a b c )" with three float tokens
vector_values(value) ==
    LET text == Strip(value)
    IN  /\ Len(text) >= 2
        /\ text[1] = "("
        /\ text[Len(text)] = ")"
        /\ LET tokens == SplitWS(SubSeq(text, 2, Len(text) - 1))
           IN  Len(tokens) = 3 /\ \A i \in 1..3 : IsFloat(tokens[i])

non_empty(value) == Strip(value) # <<>>
as_int(value) == IsInt(StripSemi(value))
as_float(value) == IsFloat(StripSemi(value))
bool_flag(value) == Lower(StripSemi(value)) \in BoolWords

\* the closure built in get_entry_metadata
enum_validator(allowed_set, v) == StripSemi(v) \in allowed_set

\* A validator is the name of the function plus, for the enum closure, the
\* allowed_set it captured.
Validator(name) == [name |-> name, allowed |-> {}]
EnumValidator(allowed_set) == [name |-> "enum_validator", allowed |-> allowed_set]

\* validator(text) returns None (TRUE) or an error message (FALSE)
Accepts(validator, text) ==
    CASE validator.name = "vector_values" -> vector_values(text)
      [] validator.name = "as_int" -> as_int(text)
      [] validator.name = "as_float" -> as_float(text)
      [] validator.name = "bool_flag" -> bool_flag(text)
      [] validator.name = "non_empty" -> non_empty(text)
      [] validator.name = "enum_validator" -> enum_validator(validator.allowed, text)

AnyIn(toks, lower) == \E t \in toks : Contains(lower, t)

\* _guess_validator that compares the whole key with each token
GuessValidatorWholeKey(key) ==
    LET lower == Lower(key)
    IN  IF lower \in { <<"o", "n">>, <<"o", "f", "f">>, <<"s", "w", "i", "t", "c", "h">>, <<"e", "n", "a", "b", "l", "e">>, <<"d", "i", "s", "a", "b", "l", "e">> }
        THEN "bool_flag"
        ELSE IF lower \in { <<"i", "t", "e", "r">>, <<"s", "t", "e", "p">>, <<"n">>, <<"c", "o", "u", "n", "t">> }
        THEN "as_int"
        ELSE IF lower \in { <<"t", "o", "l">>, <<"d", "t">>, <<"t", "i", "m", "e">>, <<"c", "o", "e", "f", "f">>, <<"a", "l", "p", "h", "a">>, <<"b", "e", "t", "a">> }
        THEN "as_float"
        ELSE "non_empty"

\* _guess_validator(key)
GuessValidator(key) ==
    LET lower == Lower(key)
    IN  IF AnyIn({ <<"o", "n">>, <<"o", "f", "f">>, <<"s", "w", "i", "t", "c", "h">>, <<"e", "n", "a", "b", "l", "e">>, <<"d", "i", "s", "a", "b", "l", "e">> }, lower)
        THEN "bool_flag"
        ELSE IF AnyIn({ <<"i", "t", "e", "r">>, <<"s", "t", "e", "p">>, <<"n">>, <<"c", "o", "u", "n", "t">> }, lower)
        THEN "as_int"
        ELSE IF AnyIn({ <<"t", "o", "l">>, <<"d", "t">>, <<"t", "i", "m", "e">>, <<"c", "o", "e", "f", "f">>, <<"a", "l", "p", "h", "a">>, <<"b", "e", "t", "a">> }, lower)
        THEN "as_float"
        ELSE "non_empty"

GuessLabel(name) ==
    CASE name = "bool_flag" -> "boolean-like"
      [] name = "as_int" -> "integer"
      [] name = "as_float" -> "float"
      [] OTHER -> "text"

\* choose_validator(key, value) -> (validator, label)
ValidatorAndLabel(name, label) == [validator |-> Validator(name), label |-> label]

\* choose_validator without the vector rule
choose_validator_no_vector(key, value) ==
    LET tokens == SplitWS(ReplaceChar(value, ";", " "))
        last == tokens[Len(tokens)]
    IN  IF tokens # <<>> /\ IsInt(last) /\ ~Contains(last, <<".">>)
               /\ ~Contains(Lower(last), <<"e">>)
        THEN ValidatorAndLabel("as_int", "integer")
        ELSE IF tokens # <<>> /\ IsFloat(last)
        THEN ValidatorAndLabel("as_float", "float")
        ELSE LET guess == GuessValidator(key)
             IN  ValidatorAndLabel(guess, GuessLabel(guess))

\* choose_validator that asks the key heuristic before the last token
choose_validator_key_first(key, value) ==
    IF Contains(value, <<"(">>) /\ Contains(value, <<")">>) /\ vector_values(value)
    THEN ValidatorAndLabel("vector_values", "vector")
    ELSE LET tokens == SplitWS(ReplaceChar(value, ";", " "))
             last == tokens[Len(tokens)]
             guess == GuessValidator(key)
         IN  IF guess # "non_empty"
             THEN ValidatorAndLabel(guess, GuessLabel(guess))
             ELSE IF tokens # <<>> /\ IsInt(last) /\ ~Contains(last, <<".">>)
                    /\ ~Contains(Lower(last), <<"e">>)
             THEN ValidatorAndLabel("as_int", "integer")
             ELSE IF tokens # <<>> /\ IsFloat(last)
             THEN ValidatorAndLabel("as_float", "float")
             ELSE ValidatorAndLabel("non_empty", "text")

choose_validator(key, value) ==
    IF Contains(value, <<"(">>) /\ Contains(value, <<")">>) /\ vector_values(value)
    THEN ValidatorAndLabel("vector_values", "vector")
    ELSE LET tokens == SplitWS(ReplaceChar(value, ";", " "))
             last == tokens[Len(tokens)]
         IN  IF tokens # <<>> /\ IsInt(last) /\ ~Contains(last, <<".">>)
                    /\ ~Contains(Lower(last), <<"e">>)
             THEN ValidatorAndLabel("as_int", "integer")
             ELSE IF tokens # <<>> /\ IsFloat(last)
             THEN ValidatorAndLabel("as_float", "float")
             ELSE LET guess == GuessValidator(key)
                  IN  ValidatorAndLabel(guess, GuessLabel(guess))

(***************************************************************************)
(* The dictionary file behind the entry browser (external engine)          *)
(***************************************************************************)
K_solver == <<"s", "o", "l", "v", "e", "r">>
K_tolerance == <<"t", "o", "l", "e", "r", "a", "n", "c", "e">>
K_boundaryField == <<"b", "o", "u", "n", "d", "a", "r", "y", "F", "i", "e", "l", "d">>
K_inlet == <<"i", "n", "l", "e", "t">>
K_type == <<"t", "y", "p", "e">>
K_value == <<"v", "a", "l", "u", "e">>

\* f"{base_entry}.{key}"
Dotted(base, key) == base \o <<".">> \o key

K_bf_inlet == Dotted(K_boundaryField, K_inlet)
K_bf_inlet_type == Dotted(K_bf_inlet, K_type)
K_bf_inlet_value == Dotted(K_bf_inlet, K_value)

\* list_keywords(file_path)
list_keywords == << K_solver, K_tolerance, K_boundaryField >>

\* list_subkeys(file_path, full_key)
list_subkeys(full_key) ==
    CASE full_key = K_boundaryField -> << K_inlet >>
      [] full_key = K_bf_inlet -> << K_type, K_value >>
      [] OTHER -> <<>>

\* get_entry_enum_values(file_path, full_key)
get_entry_enum_values(full_key) ==
    CASE full_key = K_solver -> << <<"P", "C", "G">>, <<"G", "A", "M", "G">> >>
      [] full_key = K_bf_inlet_type -> << <<"f", "i", "x", "e", "d", "V", "a", "l", "u", "e">>, <<"z", "e", "r", "o", "G", "r", "a", "d", "i", "e", "n", "t">> >>
      [] OTHER -> <<>>

\* get_entry_comments(file_path, full_key)
get_entry_comments(full_key) ==
    CASE full_key = K_tolerance -> << <<"a", "b", "s">> >>
      [] OTHER -> <<>>

\* get_entry_info(file_path, full_key)
get_entry_info(full_key) ==
    CASE full_key = K_bf_inlet -> << <<"patch">> >>
      [] OTHER -> <<>>

\* the entries of the file when the browser is opened
InitialFile ==
    [k \in { K_solver, K_tolerance, K_boundaryField, K_bf_inlet,
             K_bf_inlet_type, K_bf_inlet_value } |->
        CASE k = K_solver -> <<"P", "C", "G">>
          [] k = K_tolerance -> <<"1", "e", "-", "6">>
          [] k = K_boundaryField -> <<"{", "}">>
          [] k = K_bf_inlet -> <<"{", "}">>
          [] k = K_bf_inlet_type -> <<"f", "i", "x", "e", "d", "V", "a", "l", "u", "e">>
          [] k = K_bf_inlet_value -> <<"(", "1", " ", "0", " ", "0", ")">>]

\* texts the user types into an editor
EditTexts == { <<"G", "A", "M", "G">>, <<" ", "5", " ">> }

ErrorValue == <<"<", "e", "r", "r", "o", "r", " ", "r", "e", "a", "d", "i", "n", "g", " ", "v", "a", "l", "u", "e", ">">>

RangeOf(seq) == { seq[i] : i \in 1..Len(seq) }

(***************************************************************************)
(* Entry metadata cache (entry_meta.py)                                    *)
(***************************************************************************)
\* read_entry(file_path, key) raises OpenFOAMError: the key is not in the
\* file, or the engine fails (fail)
ReadRaises(fv, key, fail) == key \notin DOMAIN fv \/ fail

\* _read_optional_entry(file_path, key): the stripped value, <<>> for None
ReadOptionalEntry(fv, key) == IF key \in DOMAIN fv THEN Strip(fv[key]) ELSE <<>>

IndexOf(seq, x) == CHOOSE i \in 1..Len(seq) : seq[i] = x /\ \A j \in 1..(i - 1) : seq[j] # x

\* boundary_condition_info(file_path, full_key)
boundary_condition_info(fv, full_key) ==
    LET parts == SplitOn(full_key, ".")
    IN  IF K_boundaryField \notin RangeOf(parts) THEN <<>>
        ELSE LET idx == IndexOf(parts, K_boundaryField)
             IN  IF idx + 1 > Len(parts) THEN <<>>
                 ELSE LET patch == parts[idx + 1]
                          patch_key == Join(SubSeq(parts, 1, idx + 1), ".")
                          bc_type == ReadOptionalEntry(fv, Dotted(patch_key, K_type))
                          bc_value == ReadOptionalEntry(fv, Dotted(patch_key, K_value))
                      IN  << IF bc_type # <<>>
                             THEN << "BC type", patch, bc_type >>
                             ELSE << "BC missing required entry 'type'", patch >>,
                             IF bc_value # <<>>
                             THEN << "BC value", patch, bc_value >>
                             ELSE << "BC value entry not found", patch >> >>

\* the tuple both functions build before the enum override
BaseTuple(fv, full_key, value) ==
    [value |-> value,
     type_label |-> choose_validator(full_key, value).label,
     subkeys |-> list_subkeys(full_key),
     comments |-> get_entry_comments(full_key),
     info_lines |-> get_entry_info(full_key) \o boundary_condition_info(fv, full_key)]

\* get_entry_metadata, cache miss: the tuple stored in the cache
MissTuple(fv, full_key, fail) ==
    LET value == IF ReadRaises(fv, full_key, fail) THEN ErrorValue ELSE fv[full_key]
        base == BaseTuple(fv, full_key, value)
        enum_values == get_entry_enum_values(full_key)
    IN  IF enum_values # <<>>
        THEN [base EXCEPT !.type_label = "enum",
                          !.info_lines = @ \o << << "Allowed values", enum_values >> >>]
        ELSE base

\* get_entry_metadata, cache miss: the validator returned
MissValidator(fv, full_key, fail) ==
    LET value == IF ReadRaises(fv, full_key, fail) THEN ErrorValue ELSE fv[full_key]
        enum_values == get_entry_enum_values(full_key)
    IN  IF enum_values # <<>>
        THEN EnumValidator(RangeOf(enum_values))
        ELSE choose_validator(full_key, value).validator

\* get_entry_metadata that does not store the tuple when the read failed
get_entry_metadata_skip_store(c, fv, full_key, fail) ==
    IF full_key \in DOMAIN c
    THEN [cache |-> c,
          meta |-> c[full_key],
          validator |-> choose_validator(full_key, c[full_key].value).validator,
          key |-> full_key,
          hit |-> TRUE]
    ELSE LET meta == MissTuple(fv, full_key, fail)
         IN  [cache |-> IF ReadRaises(fv, full_key, fail) THEN c
                        ELSE [k \in (DOMAIN c) \cup {full_key} |->
                                 IF k = full_key THEN meta ELSE c[k]],
              meta |-> meta,
              validator |-> MissValidator(fv, full_key, fail),
              key |-> full_key,
              hit |-> FALSE]

\* get_entry_metadata(cache, file_path, case_path, full_key):
\* the cache afterwards and the tuple + validator returned
get_entry_metadata(c, fv, full_key, fail) ==
    IF full_key \in DOMAIN c
    THEN [cache |-> c,
          meta |-> c[full_key],
          validator |-> choose_validator(full_key, c[full_key].value).validator,
          key |-> full_key,
          hit |-> TRUE]
    ELSE LET meta == MissTuple(fv, full_key, fail)
         IN  [cache |-> [k \in (DOMAIN c) \cup {full_key} |->
                            IF k = full_key THEN meta ELSE c[k]],
              meta |-> meta,
              validator |-> MissValidator(fv, full_key, fail),
              key |-> full_key,
              hit |-> FALSE]

\* refresh_entry_cache that drops the entry when the read fails
refresh_entry_cache_drops(c, fv, full_key, fail) ==
    IF ReadRaises(fv, full_key, fail)
    THEN [k \in (DOMAIN c) \ {full_key} |-> c[k]]
    ELSE [k \in (DOMAIN c) \cup {full_key} |->
             IF k = full_key THEN BaseTuple(fv, full_key, fv[full_key]) ELSE c[k]]

\* refresh_entry_cache(cache, file_path, case_path, full_key): the cache afterwards
refresh_entry_cache(c, fv, full_key, fail) ==
    IF ReadRaises(fv, full_key, fail) THEN c
    ELSE [k \in (DOMAIN c) \cup {full_key} |->
             IF k = full_key THEN BaseTuple(fv, full_key, fv[full_key]) ELSE c[k]]

(***************************************************************************)
(* Verification pipeline: data                                             *)
(***************************************************************************)
Files == 1..NumFiles
Workers == 1..MaxWorkers

\* discover_case_files: section name -> files, in discovery order.
discover_case_files ==
    << SelectSeq([i \in 1..NumFiles |-> i], LAMBDA f : f % 2 = 0),
       SelectSeq([i \in 1..NumFiles |-> i], LAMBDA f : f % 2 = 1) >>

RECURSIVE Flatten(_)
Flatten(ss) == IF ss = <<>> THEN <<>> ELSE Head(ss) \o Flatten(Tail(ss))

\* the order in which verify_case walks the files
FileOrder == Flatten(discover_case_files)

RECURSIVE SumLen(_)
SumLen(ss) == IF ss = <<>> THEN 0 ELSE Len(Head(ss)) + SumLen(Tail(ss))

\* FileCheckResult values a single-file check can produce
ResultOK == [checked |-> TRUE, errors |-> <<>>, warnings |-> <<>>]
ResultWarn == [checked |-> TRUE, errors |-> <<>>, warnings |-> <<"w1">>]
ResultError == [checked |-> TRUE, errors |-> <<"e1", "e2">>, warnings |-> <<>>]
ResultBoth == [checked |-> TRUE, errors |-> <<"e1">>, warnings |-> <<"w1", "w2">>]
CheckOutcomes == <<ResultError, ResultWarn, ResultOK, ResultBoth>>

\* The outcomes of the files of a case: every file has one of the four
\* outcomes, neighbours in the file list have different ones.
CaseOutcomes ==
    { [f \in Files |-> CheckOutcomes[((f + r) % 4) + 1]] : r \in 0..3 }

EmptyDict == [f \in {} |-> ResultOK]

\* dict.__setitem__
DictSet(d, k, v) == [x \in (DOMAIN d) \cup {k} |-> IF x = k THEN v ELSE d[x]]

\* References to dict objects on the heap.  NoneRef is Python's None.
NoneRef == <<"None", 0>>
FreshRef == <<"fresh", 0>>
ObjKinds == {"start", "local", "abort", "late"}
ObjIds == ObjKinds \X Workers

LockFree == <<"free", 0>>
LockUI == <<"ui", 0>>
LockWorker(w) == <<"worker", w>>

VARIABLES
    check_lock,         \* AppState.check_lock: who holds it
    check_in_progress,  \* AppState.check_in_progress
    check_total,        \* AppState.check_total
    check_done,         \* AppState.check_done
    check_current,      \* AppState.check_current (0 = None)
    check_results,      \* AppState.check_results: NoneRef or a heap reference
    heap,               \* contents of the dict objects
    fileOutcome,        \* what the single-file check reports for each file
    workerPc,           \* position of each worker thread
    workerIdx,          \* verify_case: index into FileOrder
    workerTotal,        \* worker(): local `total`
    workerAbort,        \* worker(): verify_case raised OpenFOAMError/OSError
    uiPc,               \* position of the UI thread
    uiRef,              \* _check_labels: local `results`
    uiLabels,           \* _check_labels: labels built so far
    uiStatus,           \* last value returned by check_status_line
    fileValue,          \* the dictionary file: full key -> value text
    cache,              \* entry_browser_screen: cache
    base_entry,         \* entry_browser_screen: base_entry (<<>> = None)
    keywords,           \* entry_browser_screen: keywords
    index,              \* entry_browser_screen: index
    stack,              \* entry_browser_screen: stack
    bpc,                \* where the browser is: closed, getch, editor
    cur,                \* what get_entry_metadata returned at the loop top
    edBuf,              \* EntryEditor: text buffer
    edResult,           \* how the last editor step ended
    writeCalls,         \* number of write_entry calls
    readErrors,         \* number of engine read failures
    search,             \* _entry_browser_search: the query typed, the indexes scanned
    viewKind,           \* which list is on screen: browser, check, menu
    viewTotal,          \* number of rows of the list
    viewIndex,          \* selected row
    viewScroll,         \* first row shown
    viewHeight,         \* stdscr.getmaxyx()[0]
    viewKey,            \* the key handled last
    cvKey,              \* choose_validator: key
    cvValue,            \* choose_validator: value
    cvOut,              \* choose_validator: the (validator, label) returned
    mpc,                \* run_tui: off, main, loop, menu, screen, ended
    no_foam,            \* AppState.no_foam
    env_no_foam,        \* os.environ["OF_TUI_NO_FOAM"]: "unset" or its value
    foamCheck,          \* the latest ensure_environment: none, ok, failed
    menu_options,       \* RootMenu.options
    current_option,     \* RootMenu.current_option
    lastKey,            \* the key the root menu read last
    lastCommand,        \* the command line handle_command was given last
    lastResult,         \* what that call did and returned
    ppc,                \* _prompt_command: closed, getch, returned
    buffer,             \* _prompt_command: buffer
    cursor,             \* _prompt_command: cursor
    last_matches,       \* _prompt_command: last_matches
    match_index,        \* _prompt_command: match_index
    last_buffer,        \* _prompt_command: last_buffer
    promptResult,       \* the string _prompt_command returned
    keysRead,           \* keys the prompt has read
    tabBase,            \* the buffer before the first TAB of a run of TABs
    tabRun              \* TABs pressed in a row

checkVars == << check_lock, check_in_progress, check_total, check_done,
                check_current, check_results, heap, fileOutcome, workerPc,
                workerIdx, workerTotal, workerAbort, uiPc, uiRef, uiLabels,
                uiStatus >>

browserVars == << fileValue, cache, base_entry, keywords, index, stack, bpc,
                  cur, edBuf, edResult, writeCalls, readErrors, search >>

viewVars == << viewKind, viewTotal, viewIndex, viewScroll, viewHeight, viewKey >>

classifyVars == << cvKey, cvValue, cvOut >>

menuVars == << mpc, no_foam, env_no_foam, foamCheck, menu_options,
               current_option, lastKey, lastCommand, lastResult >>

promptVars == << ppc, buffer, cursor, last_matches, match_index, last_buffer,
                 promptResult, keysRead, tabBase, tabRun >>

sessionVars == << menuVars, promptVars >>

vars == << checkVars, browserVars, viewVars, classifyVars, sessionVars >>

sharedVars == << check_in_progress, check_total, check_done, check_current,
                 check_results >>
uiVars == << uiPc, uiRef, uiLabels, uiStatus >>
workerLocals == << workerIdx, workerTotal, workerAbort >>

NoStatus == [shown |-> FALSE, done |-> 0, total |-> 0, current |-> 0]

\* AppState() defaults, no worker thread, UI in the main menu
AppStateInit ==
    /\ check_lock = LockFree
    /\ check_in_progress = FALSE
    /\ check_total = 0
    /\ check_done = 0
    /\ check_current = 0
    /\ check_results = NoneRef
    /\ heap = [o \in ObjIds |-> EmptyDict]
    /\ fileOutcome \in CaseOutcomes
    /\ workerPc = [w \in Workers |-> "idle"]
    /\ workerIdx = [w \in Workers |-> 1]
    /\ workerTotal = [w \in Workers |-> 0]
    /\ workerAbort = [w \in Workers |-> FALSE]
    /\ uiPc = "main"
    /\ uiRef = FreshRef
    /\ uiLabels = <<>>
    /\ uiStatus = NoStatus

\* Dict objects that nothing references any more are freed: a dict is kept
\* while state.check_results, the local `results` of _check_labels, or the
\* `results` of a verify_case call that has not ended refers to it.
InVerify(pc) == pc \in {"check", "result", "progress"}

Collect(h, res, ref, pcs, aborted) ==
    [o \in ObjIds |->
        IF \/ o = res
           \/ o = ref
           \/ o[1] = "local" /\ InVerify(pcs[o[2]])
           \/ o[1] = "local" /\ pcs[o[2]] = "end" /\ ~aborted[o[2]]
           \/ o[1] = "abort" /\ pcs[o[2]] = "end" /\ aborted[o[2]]
        THEN h[o] ELSE EmptyDict]

(***************************************************************************)
(* Verification pipeline: worker thread (_start_check_thread.worker)       *)
(***************************************************************************)
CurrentFile(w) == FileOrder[workerIdx[w]]

\* the locals of worker() and verify_case go away with the thread
ThreadExit(w) ==
    /\ workerIdx' = [workerIdx EXCEPT ![w] = 1]
    /\ workerTotal' = [workerTotal EXCEPT ![w] = 0]
    /\ workerAbort' = [workerAbort EXCEPT ![w] = FALSE]

\* sections = discover_case_files(case_path); total = sum(len(files) ...)
WorkerDiscover(w) ==
    /\ workerPc[w] = "discover"
    /\ workerTotal' = [workerTotal EXCEPT ![w] = SumLen(discover_case_files)]
    /\ workerPc' = [workerPc EXCEPT ![w] = "start"]
    /\ UNCHANGED << check_lock, sharedVars, heap, fileOutcome, workerIdx,
                    workerAbort, uiVars >>
    /\ UNCHANGED << browserVars, viewVars, classifyVars, sessionVars >>

\* A `with state.check_lock:` block of the worker is one step: it is taken
\* when the lock is free and the lock is free again when it ends.

\* WorkerStartBody that publishes a placeholder entry for every file
WorkerStartBodyPrefilled(w) ==
    /\ workerPc[w] = "start"
    /\ check_lock = LockFree
    /\ check_in_progress' = TRUE
    /\ check_total' = workerTotal[w]
    /\ check_done' = 0
    /\ check_current' = 0
    /\ check_results' = <<"start", w>>
    /\ check_lock' = LockFree
    /\ workerIdx' = [workerIdx EXCEPT ![w] = 1]
    /\ workerPc' = [workerPc EXCEPT ![w] =
                        IF Len(FileOrder) = 0 THEN "end" ELSE "check"]
    /\ UNCHANGED << fileOutcome, workerTotal, workerAbort, uiVars >>
    /\ heap' = Collect([heap EXCEPT ![<<"start", w>>] =
                                        [f \in Files |-> [checked |-> FALSE,
                                                          errors |-> <<>>,
                                                          warnings |-> <<>>]],
                                    ![<<"local", w>>] = EmptyDict],
                       check_results', uiRef, workerPc', workerAbort)
    /\ UNCHANGED << browserVars, viewVars, classifyVars, sessionVars >>

\* WorkerStartBody that leaves its `with` block only when the thread ends:
\* the lock stays with the worker during verify_case
WorkerStartBodyKeepsLock(w) ==
    /\ workerPc[w] = "start"
    /\ check_lock = LockFree
    /\ check_in_progress' = TRUE
    /\ check_total' = workerTotal[w]
    /\ check_done' = 0
    /\ check_current' = 0
    /\ check_results' = <<"start", w>>
    /\ check_lock' = LockWorker(w)
    /\ workerIdx' = [workerIdx EXCEPT ![w] = 1]
    /\ workerPc' = [workerPc EXCEPT ![w] =
                        IF Len(FileOrder) = 0 THEN "end" ELSE "check"]
    /\ UNCHANGED << fileOutcome, workerTotal, workerAbort, uiVars >>
    /\ heap' = Collect([heap EXCEPT ![<<"start", w>>] = EmptyDict,
                                    ![<<"local", w>>] = EmptyDict],
                       check_results', uiRef, workerPc', workerAbort)
    /\ UNCHANGED << browserVars, viewVars, classifyVars, sessionVars >>

\* first locked block: publish the start of the run, then enter verify_case
WorkerStartBody(w) ==
    /\ workerPc[w] = "start"
    /\ check_lock = LockFree
    /\ check_in_progress' = TRUE
    /\ check_total' = workerTotal[w]
    /\ check_done' = 0
    /\ check_current' = 0
    /\ check_results' = <<"start", w>>
    /\ check_lock' = LockFree
    /\ workerIdx' = [workerIdx EXCEPT ![w] = 1]
    /\ workerPc' = [workerPc EXCEPT ![w] =
                        IF Len(FileOrder) = 0 THEN "end" ELSE "check"]
    /\ UNCHANGED << fileOutcome, workerTotal, workerAbort, uiVars >>
    /\ heap' = Collect([heap EXCEPT ![<<"start", w>>] = EmptyDict,
                                    ![<<"local", w>>] = EmptyDict],
                       check_results', uiRef, workerPc', workerAbort)
    /\ UNCHANGED << browserVars, viewVars, classifyVars, sessionVars >>

\* verify_case: the single-file check of the next file returns a result
\* (an engine-reported error of that file is captured in the result)
VerifyCheckFile(w) ==
    /\ workerPc[w] = "check"
    /\ heap' = [heap EXCEPT ![<<"local", w>>] =
                    DictSet(@, CurrentFile(w), fileOutcome[CurrentFile(w)])]
    /\ workerPc' = [workerPc EXCEPT ![w] = "result"]
    /\ UNCHANGED << check_lock, sharedVars, fileOutcome, workerLocals, uiVars >>
    /\ UNCHANGED << browserVars, viewVars, classifyVars, sessionVars >>

\* verify_case raises OpenFOAMError / OSError: except clause, results = {}
VerifyRaiseCaught(w) ==
    /\ workerPc[w] = "check"
    /\ workerAbort' = [workerAbort EXCEPT ![w] = TRUE]
    /\ workerPc' = [workerPc EXCEPT ![w] = "end"]
    /\ UNCHANGED << check_lock, sharedVars, fileOutcome, workerIdx,
                    workerTotal, uiVars >>
    /\ heap' = Collect([heap EXCEPT ![<<"abort", w>>] = EmptyDict],
                       check_results, uiRef, workerPc', workerAbort')
    /\ UNCHANGED << browserVars, viewVars, classifyVars, sessionVars >>

\* verify_case raises anything else: no except clause matches, no finally,
\* the exception ends the thread
VerifyRaiseOther(w) ==
    /\ workerPc[w] = "check"
    /\ workerPc' = [workerPc EXCEPT ![w] = "dead"]
    /\ ThreadExit(w)
    /\ UNCHANGED << check_lock, sharedVars, fileOutcome, uiVars >>
    /\ heap' = Collect(heap, check_results, uiRef, workerPc', workerAbort)
    /\ UNCHANGED << browserVars, viewVars, classifyVars, sessionVars >>

\* result_callback(path, result)
ResultTarget(w) == IF check_results = NoneRef THEN <<"late", w>> ELSE check_results

\* result_callback that stores nothing for a result with errors
result_callback_skip_errors(w) ==
    /\ workerPc[w] = "result"
    /\ check_lock = LockFree
    /\ check_results' = ResultTarget(w)
    /\ heap' = [heap EXCEPT ![ResultTarget(w)] =
                    IF heap[<<"local", w>>][CurrentFile(w)].errors # <<>>
                    THEN (IF check_results = NoneRef THEN EmptyDict ELSE @)
                    ELSE DictSet(IF check_results = NoneRef THEN EmptyDict ELSE @,
                                 CurrentFile(w),
                                 heap[<<"local", w>>][CurrentFile(w)])]
    /\ check_lock' = LockFree
    /\ workerPc' = [workerPc EXCEPT ![w] = "progress"]
    /\ UNCHANGED << check_in_progress, check_total, check_done, check_current,
                    fileOutcome, workerLocals, uiVars >>
    /\ UNCHANGED << browserVars, viewVars, classifyVars, sessionVars >>

result_callback(w) ==
    /\ workerPc[w] = "result"
    /\ check_lock = LockFree
    /\ check_results' = ResultTarget(w)
    /\ heap' = [heap EXCEPT ![ResultTarget(w)] =
                    DictSet(IF check_results = NoneRef THEN EmptyDict ELSE @,
                            CurrentFile(w),
                            heap[<<"local", w>>][CurrentFile(w)])]
    /\ check_lock' = LockFree
    /\ workerPc' = [workerPc EXCEPT ![w] = "progress"]
    /\ UNCHANGED << check_in_progress, check_total, check_done, check_current,
                    fileOutcome, workerLocals, uiVars >>
    /\ UNCHANGED << browserVars, viewVars, classifyVars, sessionVars >>

\* progress_callback that does not take check_lock
progress_callback_unlocked(w) ==
    /\ workerPc[w] = "progress"
    /\ check_done' = check_done + 1
    /\ check_current' = CurrentFile(w)
    /\ workerIdx' = [workerIdx EXCEPT ![w] = @ + 1]
    /\ workerPc' = [workerPc EXCEPT ![w] =
                        IF workerIdx[w] = Len(FileOrder) THEN "end" ELSE "check"]
    /\ UNCHANGED << check_lock, check_in_progress, check_total, check_results,
                    heap, fileOutcome, workerTotal, workerAbort, uiVars >>
    /\ UNCHANGED << browserVars, viewVars, classifyVars, sessionVars >>

\* progress_callback(path), then verify_case moves on to the next file
progress_callback(w) ==
    /\ workerPc[w] = "progress"
    /\ check_lock = LockFree
    /\ check_done' = check_done + 1
    /\ check_current' = CurrentFile(w)
    /\ check_lock' = LockFree
    /\ workerIdx' = [workerIdx EXCEPT ![w] = @ + 1]
    /\ workerPc' = [workerPc EXCEPT ![w] =
                        IF workerIdx[w] = Len(FileOrder) THEN "end" ELSE "check"]
    /\ UNCHANGED << check_in_progress, check_total, check_results, heap,
                    fileOutcome, workerTotal, workerAbort, uiVars >>
    /\ UNCHANGED << browserVars, viewVars, classifyVars, sessionVars >>

\* the value bound to the worker's local `results` after the try statement
WorkerResults(w) == IF workerAbort[w] THEN <<"abort", w>> ELSE <<"local", w>>

\* last locked block: state.check_results = results; check_in_progress = False
WorkerEndBody(w) ==
    /\ workerPc[w] = "end"
    /\ check_lock = LockFree
    /\ check_results' = WorkerResults(w)
    /\ check_in_progress' = FALSE
    /\ check_lock' = LockFree
    /\ workerPc' = [workerPc EXCEPT ![w] = "done"]
    /\ ThreadExit(w)
    /\ UNCHANGED << check_total, check_done, check_current, fileOutcome,
                    uiVars >>
    /\ heap' = Collect(heap, check_results', uiRef, workerPc', workerAbort)
    /\ UNCHANGED << browserVars, viewVars, classifyVars, sessionVars >>

worker(w) ==
    \/ WorkerDiscover(w)
    \/ WorkerStartBody(w)
    \/ VerifyCheckFile(w)
    \/ VerifyRaiseCaught(w)
    \/ VerifyRaiseOther(w)
    \/ result_callback(w)
    \/ progress_callback(w)
    \/ WorkerEndBody(w)

(***************************************************************************)
(* Verification pipeline: UI thread                                        *)
(***************************************************************************)
NoCheck == [none |-> TRUE]

\* _check_syntax_menu: without files it returns at once, else its loop starts
CheckSyntaxMenu == IF Len(FileOrder) = 0 THEN "main" ELSE "labels"

\* dict.get(file_path)
DictGet(d, k) == IF k \in DOMAIN d THEN d[k] ELSE NoCheck

\* the dict a reference denotes; `state.check_results or {}` yields a new
\* empty dict for None and for an empty dict
Deref(ref) == IF ref \in ObjIds THEN heap[ref] ELSE EmptyDict

\* _check_labels that looks at the warnings before the errors
CheckLabelWarnFirst(check) ==
    IF check = NoCheck \/ ~check.checked THEN <<"Not checked", 0>>
    ELSE IF check.warnings # <<>> THEN <<"Warn", Len(check.warnings)>>
    ELSE IF check.errors # <<>> THEN <<"ERROR", Len(check.errors)>>
    ELSE <<"OK", 0>>

\* _check_labels: status text of one file
CheckLabel(check) ==
    IF check = NoCheck \/ ~check.checked THEN <<"Not checked", 0>>
    ELSE IF check.errors # <<>> THEN <<"ERROR", Len(check.errors)>>
    ELSE IF check.warnings # <<>> THEN <<"Warn", Len(check.warnings)>>
    ELSE <<"OK", 0>>

\* main menu choice "Check syntax" -> _check_syntax_screen
UISelectCheck ==
    /\ uiPc = "main"
    /\ uiPc' = "decide1"
    /\ UNCHANGED << check_lock, sharedVars, heap, fileOutcome, workerPc,
                    workerLocals, uiRef, uiLabels, uiStatus >>
    /\ UNCHANGED << browserVars, viewVars, classifyVars, sessionVars >>

\* _check_syntax_screen: `state.check_results is None`
UIDecideResults ==
    /\ uiPc = "decide1"
    /\ uiPc' = IF check_results = NoneRef THEN "decide2" ELSE CheckSyntaxMenu
    /\ UNCHANGED << check_lock, sharedVars, heap, fileOutcome, workerPc,
                    workerLocals, uiRef, uiLabels, uiStatus >>
    /\ UNCHANGED << browserVars, viewVars, classifyVars, sessionVars >>

\* _check_syntax_screen: `and not state.check_in_progress` is false
UIDecideBusy ==
    /\ uiPc = "decide2"
    /\ check_in_progress
    /\ uiPc' = CheckSyntaxMenu
    /\ UNCHANGED << check_lock, sharedVars, heap, fileOutcome, workerPc,
                    workerLocals, uiRef, uiLabels, uiStatus >>
    /\ UNCHANGED << browserVars, viewVars, classifyVars, sessionVars >>

\* _check_syntax_screen: condition true -> _start_check_thread
StartCheckThread ==
    /\ uiPc = "decide2"
    /\ ~check_in_progress
    /\ \E w \in Workers :
        /\ workerPc[w] = "idle"
        /\ \A v \in Workers : v < w => workerPc[v] # "idle"
        /\ workerPc' = [workerPc EXCEPT ![w] = "discover"]
    /\ uiPc' = CheckSyntaxMenu
    /\ UNCHANGED << check_lock, sharedVars, heap, fileOutcome, workerLocals,
                    uiRef, uiLabels, uiStatus >>
    /\ UNCHANGED << browserVars, viewVars, classifyVars, sessionVars >>

\* _check_labels: results = state.check_results or {}
UILabelsRef ==
    /\ uiPc = "labels"
    /\ uiRef' = IF check_results = NoneRef \/ Deref(check_results) = EmptyDict
                THEN FreshRef ELSE check_results
    /\ uiLabels' = <<>>
    /\ uiPc' = "scan"
    /\ UNCHANGED << check_lock, sharedVars, fileOutcome, workerPc,
                    workerLocals, uiStatus >>
    /\ heap' = Collect(heap, check_results, uiRef', workerPc, workerAbort)
    /\ UNCHANGED << browserVars, viewVars, classifyVars, sessionVars >>

\* _check_labels: one iteration of `for file_path in files`
UILabelsScan ==
    /\ uiPc = "scan"
    /\ uiLabels' = Append(uiLabels,
                          CheckLabel(DictGet(Deref(uiRef), FileOrder[Len(uiLabels) + 1])))
    /\ uiPc' = IF Len(uiLabels) + 1 = Len(FileOrder) THEN "status" ELSE "scan"
    /\ uiRef' = IF Len(uiLabels) + 1 = Len(FileOrder) THEN FreshRef ELSE uiRef
    /\ UNCHANGED << check_lock, sharedVars, fileOutcome, workerPc,
                    workerLocals, uiStatus >>
    /\ heap' = Collect(heap, check_results, uiRef', workerPc, workerAbort)
    /\ UNCHANGED << browserVars, viewVars, classifyVars, sessionVars >>

\* check_status_line: with self.check_lock
UIStatusAcquire ==
    /\ uiPc = "status"
    /\ check_lock = LockFree
    /\ check_lock' = LockUI
    /\ uiPc' = "statusL"
    /\ UNCHANGED << sharedVars, heap, fileOutcome, workerPc, workerLocals,
                    uiRef, uiLabels, uiStatus >>
    /\ UNCHANGED << browserVars, viewVars, classifyVars, sessionVars >>

\* check_status_line: body
check_status_line ==
    IF check_in_progress
    THEN [shown |-> TRUE, done |-> check_done, total |-> check_total,
          current |-> check_current]
    ELSE NoStatus

UIStatusRead ==
    /\ uiPc = "statusL"
    /\ uiStatus' = check_status_line
    /\ check_lock' = LockFree
    /\ uiPc' = "getch"
    /\ UNCHANGED << sharedVars, heap, fileOutcome, workerPc, workerLocals,
                    uiRef, uiLabels >>
    /\ UNCHANGED << browserVars, viewVars, classifyVars, sessionVars >>

\* _check_syntax_menu: getch timed out or a movement key -> next iteration
UIRedraw ==
    /\ uiPc = "getch"
    /\ uiPc' = "labels"
    /\ uiLabels' = <<>>
    /\ uiStatus' = NoStatus
    /\ UNCHANGED << check_lock, sharedVars, heap, fileOutcome, workerPc,
                    workerLocals, uiRef >>
    /\ UNCHANGED << browserVars, viewVars, classifyVars, sessionVars >>

\* _check_syntax_menu: "back" key
UIBack ==
    /\ uiPc = "getch"
    /\ uiPc' = "main"
    /\ uiLabels' = <<>>
    /\ uiStatus' = NoStatus
    /\ UNCHANGED << check_lock, sharedVars, heap, fileOutcome, workerPc,
                    workerLocals, uiRef >>
    /\ UNCHANGED << browserVars, viewVars, classifyVars, sessionVars >>

\* _check_syntax_menu: ":" then "check" -> handle_command -> check_syntax
UICommandCheck ==
    /\ uiPc = "getch"
    /\ uiPc' = "decide1"
    /\ uiLabels' = <<>>
    /\ uiStatus' = NoStatus
    /\ UNCHANGED << check_lock, sharedVars, heap, fileOutcome, workerPc,
                    workerLocals, uiRef >>
    /\ UNCHANGED << browserVars, viewVars, classifyVars, sessionVars >>

UIStep ==
    \/ UISelectCheck
    \/ UIDecideResults
    \/ UIDecideBusy
    \/ StartCheckThread
    \/ UILabelsRef
    \/ UILabelsScan
    \/ UIStatusAcquire
    \/ UIStatusRead
    \/ UIRedraw
    \/ UIBack
    \/ UICommandCheck

NextCheck == UIStep \/ \E w \in Workers : worker(w)

TypeOKCheck ==
    /\ check_in_progress \in BOOLEAN
    /\ check_results \in ObjIds \cup {NoneRef}
    /\ check_done \in 0..(MaxWorkers * NumFiles)
    /\ check_current \in 0..NumFiles

(***************************************************************************)
(* Entry browser (browser.py) and entry editor                             *)
(***************************************************************************)
EmptyCache == [k \in {} |-> 0]
NoCur == [key |-> <<>>, hit |-> FALSE]
NoSearch == [query |-> <<>>, visited |-> <<>>]

\* initial_index values a caller passes (-1 stands for None)
InitialIndexes == {-1, 0, 1, 5}

\* no browser is open
BrowserClosed ==
    /\ cache = EmptyCache
    /\ base_entry = <<>>
    /\ keywords = <<>>
    /\ index = 0
    /\ stack = <<>>
    /\ bpc = "closed"
    /\ cur = NoCur
    /\ edBuf = <<>>
    /\ edResult = "none"
    /\ search = NoSearch

\* full_key = key if base_entry is None else f"{base_entry}.{key}"
FullKey(base, key) == IF base = <<>> THEN key ELSE Dotted(base, key)

\* an engine read may fail while the budget of failures lasts
MayFail(fail, used) == fail => readErrors + used < MaxReadErrors

\* Top of the browser loop for the level (base, kw, idx): get_entry_metadata
\* of the selected key on cache c and file fv, then wait for a key.
\* `used` counts the read failures of the handler that ran before.
\* keywords[index] is a Python list subscript: an index in -n .. -1 counts
\* from the end, any other index outside 0 .. n-1 raises IndexError, which
\* no handler catches and which ends the browser.
LoopTop(c, fv, base, kw, idx, st, used, fail) ==
    IF idx >= Len(kw) \/ idx < 0 - Len(kw)
    THEN /\ ~fail
         /\ base_entry' = base
         /\ keywords' = kw
         /\ index' = idx
         /\ stack' = st
         /\ cache' = c
         /\ cur' = NoCur
         /\ readErrors' = readErrors + used
         /\ bpc' = "IndexError"
         /\ edBuf' = <<>>
         /\ edResult' = "none"
         /\ search' = NoSearch
    ELSE
    \E r \in { get_entry_metadata(c, fv, FullKey(base, kw[(idx % Len(kw)) + 1]), fail) } :
        /\ MayFail(fail, used)
        /\ fail => ~r.hit
        /\ base_entry' = base
        /\ keywords' = kw
        /\ index' = idx
        /\ stack' = st
        /\ cache' = r.cache
        /\ cur' = [key |-> r.key, hit |-> r.hit, meta |-> r.meta,
                   validator |-> r.validator]
        /\ readErrors' = readErrors + used + (IF fail THEN 1 ELSE 0)
        /\ bpc' = "getch"
        /\ edBuf' = <<>>
        /\ edResult' = "none"
        /\ search' = NoSearch

Max(a, b) == IF a > b THEN a ELSE b
Min(a, b) == IF a < b THEN a ELSE b

\* initial_index taken as it is given (None as 0)
initial_index_unclamped(initial_index, n) ==
    IF initial_index = -1 THEN 0 ELSE initial_index

\* index = 0 if initial_index is None else max(0, min(initial_index, n - 1))
clamp_initial_index(initial_index, n) ==
    IF initial_index = -1 THEN 0 ELSE Max(0, Min(initial_index, n - 1))

\* entry_browser_screen is called: keywords loaded, index clamped
BrowserOpen ==
    /\ bpc = "closed"
    /\ \E initial_index \in InitialIndexes, fail \in BOOLEAN :
        LET kw == list_keywords
            idx == clamp_initial_index(initial_index, Len(kw))
        IN  LoopTop(EmptyCache, fileValue, <<>>, kw, idx, <<>>, 0, fail)
    /\ UNCHANGED << fileValue, writeCalls, checkVars, viewVars, classifyVars, sessionVars >>

\* a key handler that only changes the index, then the next loop iteration
MoveTo(idx) ==
    /\ \E fail \in BOOLEAN :
        LoopTop(cache, fileValue, base_entry, keywords, idx, stack, 0, fail)
    /\ UNCHANGED << fileValue, writeCalls, checkVars, viewVars, classifyVars, sessionVars >>

\* index = (index - 1) % len(keywords) and (index + 1) % len(keywords)
browser_up(idx, n) == (idx - 1) % n
browser_down(idx, n) == (idx + 1) % n

\* KEY_UP / "up"
BrowserUp ==
    /\ bpc = "getch"
    /\ MoveTo(browser_up(index, Len(keywords)))

\* KEY_DOWN / "down"
BrowserDown ==
    /\ bpc = "getch"
    /\ MoveTo(browser_down(index, Len(keywords)))

\* "top"
BrowserTop ==
    /\ bpc = "getch"
    /\ MoveTo(0)

\* "bottom"
BrowserBottom ==
    /\ bpc = "getch"
    /\ MoveTo(Len(keywords) - 1)

\* BrowserAscend that forgets the saved index
BrowserAscendToFirst ==
    /\ bpc = "getch"
    /\ stack # <<>>
    /\ LET top == stack[Len(stack)]
       IN  \E fail \in BOOLEAN :
             LoopTop(cache, fileValue, top[1], top[2], 0,
                     SubSeq(stack, 1, Len(stack) - 1), 0, fail)
    /\ UNCHANGED << fileValue, writeCalls, checkVars, viewVars, classifyVars, sessionVars >>

\* KEY_LEFT / "back" with a non-empty stack: pop
BrowserAscend ==
    /\ bpc = "getch"
    /\ stack # <<>>
    /\ LET top == stack[Len(stack)]
       IN  \E fail \in BOOLEAN :
             LoopTop(cache, fileValue, top[1], top[2], top[3],
                     SubSeq(stack, 1, Len(stack) - 1), 0, fail)
    /\ UNCHANGED << fileValue, writeCalls, checkVars, viewVars, classifyVars, sessionVars >>

\* BrowserExit that does not look at the stack
BrowserExitAnyDepth ==
    /\ bpc = "getch"
    /\ cache' = EmptyCache
    /\ base_entry' = <<>>
    /\ keywords' = <<>>
    /\ index' = 0
    /\ stack' = <<>>
    /\ bpc' = "closed"
    /\ cur' = NoCur
    /\ edBuf' = <<>>
    /\ edResult' = "none"
    /\ search' = NoSearch
    /\ UNCHANGED << fileValue, writeCalls, readErrors, checkVars, viewVars, classifyVars, sessionVars >>

\* KEY_LEFT / "back" with an empty stack: return
BrowserExit ==
    /\ bpc = "getch"
    /\ stack = <<>>
    /\ cache' = EmptyCache
    /\ base_entry' = <<>>
    /\ keywords' = <<>>
    /\ index' = 0
    /\ stack' = <<>>
    /\ bpc' = "closed"
    /\ cur' = NoCur
    /\ edBuf' = <<>>
    /\ edResult' = "none"
    /\ search' = NoSearch
    /\ UNCHANGED << fileValue, writeCalls, readErrors, checkVars, viewVars, classifyVars, sessionVars >>

\* BrowserDescend that takes the bare key as the new base_entry
BrowserDescendBareKey ==
    /\ bpc = "getch"
    /\ cur.meta.subkeys # <<>>
    /\ \E fail \in BOOLEAN :
        LoopTop(cache, fileValue, keywords[index + 1], cur.meta.subkeys, 0,
                Append(stack, << base_entry, keywords, index >>), 0, fail)
    /\ UNCHANGED << fileValue, writeCalls, checkVars, viewVars, classifyVars, sessionVars >>

\* BrowserDescend that saves index 0 instead of the index it leaves
BrowserDescendLosesIndex ==
    /\ bpc = "getch"
    /\ cur.meta.subkeys # <<>>
    /\ \E fail \in BOOLEAN :
        LoopTop(cache, fileValue, cur.key, cur.meta.subkeys, 0,
                Append(stack, << base_entry, keywords, 0 >>), 0, fail)
    /\ UNCHANGED << fileValue, writeCalls, checkVars, viewVars, classifyVars, sessionVars >>

\* l / e / Right / Enter on an entry with sub-keys: descend
BrowserDescend ==
    /\ bpc = "getch"
    /\ cur.meta.subkeys # <<>>
    /\ \E fail \in BOOLEAN :
        LoopTop(cache, fileValue, cur.key, cur.meta.subkeys, 0,
                Append(stack, << base_entry, keywords, index >>), 0, fail)
    /\ UNCHANGED << fileValue, writeCalls, checkVars, viewVars, classifyVars, sessionVars >>

\* l / e / Right / Enter on a scalar: _entry_browser_inline_edit opens the
\* editor on Entry(key=full_key, value=value)
InlineEditOpen ==
    /\ bpc = "getch"
    /\ cur.meta.subkeys = <<>>
    /\ bpc' = "editor"
    /\ edBuf' = cur.meta.value
    /\ edResult' = "none"
    /\ UNCHANGED << fileValue, cache, base_entry, keywords, index, stack, cur,
                    writeCalls, readErrors, search, checkVars, viewVars, classifyVars, sessionVars >>

\* autoformat_value(value)
autoformat_value(value) == Strip(value)

\* the editor: the user replaces the buffer text
EditorInput ==
    /\ bpc = "editor"
    /\ \E t \in EditTexts : edBuf' = t /\ t # edBuf
    /\ edResult' = "none"
    /\ UNCHANGED << fileValue, cache, base_entry, keywords, index, stack, bpc,
                    cur, writeCalls, readErrors, search, checkVars, viewVars, classifyVars, sessionVars >>

\* the editor: save with a buffer the validator rejects
EditorSaveRejected ==
    /\ bpc = "editor"
    /\ ~Accepts(cur.validator, autoformat_value(edBuf))
    /\ edResult' = "rejected"
    /\ UNCHANGED << fileValue, cache, base_entry, keywords, index, stack, bpc,
                    cur, edBuf, writeCalls, readErrors, search, checkVars, viewVars, classifyVars, sessionVars >>

\* the editor: save, on_save -> write_entry returns False
EditorSaveFailed ==
    /\ bpc = "editor"
    /\ Accepts(cur.validator, autoformat_value(edBuf))
    /\ writeCalls < MaxWrites
    /\ writeCalls' = writeCalls + 1
    /\ edResult' = "write_failed"
    /\ UNCHANGED << fileValue, cache, base_entry, keywords, index, stack, bpc,
                    cur, edBuf, readErrors, search, checkVars, viewVars, classifyVars, sessionVars >>

\* EditorSaved without the validator run that precedes on_save
EditorSavedUnvalidated ==
    /\ bpc = "editor"
    /\ writeCalls < MaxWrites
    /\ writeCalls' = writeCalls + 1
    /\ fileValue' = [fileValue EXCEPT ![cur.key] = autoformat_value(edBuf)]
    /\ \E fail1 \in BOOLEAN, fail2 \in BOOLEAN :
        /\ MayFail(fail1, 0)
        /\ LoopTop(refresh_entry_cache(cache, fileValue', cur.key, fail1),
                   fileValue', base_entry, keywords, index, stack,
                   IF fail1 THEN 1 ELSE 0, fail2)
    /\ UNCHANGED << checkVars, viewVars, classifyVars, sessionVars >>

\* the editor: save, on_save -> write_entry succeeds; editor.edit() returns,
\* refresh_entry_cache, next loop iteration
EditorSaved ==
    /\ bpc = "editor"
    /\ Accepts(cur.validator, autoformat_value(edBuf))
    /\ writeCalls < MaxWrites
    /\ writeCalls' = writeCalls + 1
    /\ fileValue' = [fileValue EXCEPT ![cur.key] = autoformat_value(autoformat_value(edBuf))]
    /\ \E fail1 \in BOOLEAN, fail2 \in BOOLEAN :
        /\ MayFail(fail1, 0)
        /\ LoopTop(refresh_entry_cache(cache, fileValue', cur.key, fail1),
                   fileValue', base_entry, keywords, index, stack,
                   IF fail1 THEN 1 ELSE 0, fail2)
    /\ UNCHANGED << checkVars, viewVars, classifyVars, sessionVars >>

\* the editor: cancel; editor.edit() returns, refresh_entry_cache, next loop
\* iteration
EditorCancelled ==
    /\ bpc = "editor"
    /\ \E fail1 \in BOOLEAN, fail2 \in BOOLEAN :
        /\ MayFail(fail1, 0)
        /\ LoopTop(refresh_entry_cache(cache, fileValue, cur.key, fail1),
                   fileValue, base_entry, keywords, index, stack,
                   IF fail1 THEN 1 ELSE 0, fail2)
    /\ UNCHANGED << fileValue, writeCalls, checkVars, viewVars, classifyVars, sessionVars >>

\* "o": _entry_browser_external_edit returns False (read failed, editor gave
\* nothing new, or write_entry failed)
ExternalEditNoChange ==
    /\ bpc = "getch"
    /\ \E how \in {"read_failed", "unchanged", "write_failed"}, fail \in BOOLEAN :
        /\ how = "read_failed" => readErrors < MaxReadErrors
        /\ how = "write_failed" => writeCalls < MaxWrites
        /\ writeCalls' = writeCalls + (IF how = "write_failed" THEN 1 ELSE 0)
        /\ LoopTop(cache, fileValue, base_entry, keywords, index, stack,
                   IF how = "read_failed" THEN 1 ELSE 0, fail)
    /\ UNCHANGED << fileValue, checkVars, viewVars, classifyVars, sessionVars >>

\* "o": _entry_browser_external_edit writes the edited text and refreshes
ExternalEditSaved ==
    /\ bpc = "getch"
    /\ writeCalls < MaxWrites
    /\ \E edited \in EditTexts, fail1 \in BOOLEAN, fail2 \in BOOLEAN :
        /\ edited # fileValue[cur.key]
        /\ writeCalls' = writeCalls + 1
        /\ fileValue' = [fileValue EXCEPT ![cur.key] = autoformat_value(edited)]
        /\ MayFail(fail1, 0)
        /\ LoopTop(refresh_entry_cache(cache, fileValue', cur.key, fail1),
                   fileValue', base_entry, keywords, index, stack,
                   IF fail1 THEN 1 ELSE 0, fail2)
    /\ UNCHANGED << checkVars, viewVars, classifyVars, sessionVars >>

\* texts the user types at the search prompt
SearchQueries ==
    { <<>>, <<"P", "c", "g">>, <<"a", "b", "s">>, <<"f", "i", "x", "e", "d">>,
      <<"e", "r", "r", "o", "r">>, <<"z", "z">> }

\* haystack = " ".join([key, value] + comments).lower()
Haystack(key, meta) == Lower(Join(<< key, meta.value >> \o meta.comments, " "))

\* _search_entries, the loop from `step` on: the cache afterwards, the index
\* returned (-1 for None) and the indexes looked at. The engine answers
\* every read of the scan (no failure is injected here).
RECURSIVE SearchFrom(_, _, _, _, _, _, _)
SearchFrom(c, fv, kw, current_index, q, step, seen) ==
    IF step > Len(kw) THEN [cache |-> c, found |-> -1, visited |-> seen]
    ELSE LET idx == (current_index + 1 * step) % Len(kw)
             key == kw[idx + 1]
             full_key == key
         IN  \* a record, so that TLC evaluates get_entry_metadata once
             LET r == get_entry_metadata(c, fv, full_key, FALSE)
             IN  IF Contains(Haystack(key, r.meta), q)
                 THEN [cache |-> r.cache, found |-> idx, visited |-> Append(seen, idx)]
                 ELSE SearchFrom(r.cache, fv, kw, current_index, q, step + 1,
                                 Append(seen, idx))

\* _search_entries(file_path, case_path, cache, keywords, current_index, query)
search_entries(c, fv, kw, current_index, query) ==
    IF kw = <<>> THEN [cache |-> c, found |-> -1, visited |-> <<>>]
    ELSE SearchFrom(c, fv, kw, current_index, Lower(query), 1, <<>>)

\* "search": _entry_browser_search prompts, the user types a query
BrowserSearchPrompt ==
    /\ bpc = "getch"
    /\ bpc' = "search"
    /\ \E q \in SearchQueries : search' = [query |-> q, visited |-> <<>>]
    /\ UNCHANGED << fileValue, cache, base_entry, keywords, index, stack, cur,
                    edBuf, edResult, writeCalls, readErrors, checkVars, viewVars, classifyVars, sessionVars >>

\* the query is entered: an empty query returns None; a match becomes the new
\* index; no match shows "No matches for ..." (the cache keeps what the scan
\* loaded)
BrowserSearchRun ==
    /\ bpc = "search"
    /\ IF search.query = <<>>
       THEN \E fail \in BOOLEAN :
              LoopTop(cache, fileValue, base_entry, keywords, index, stack, 0, fail)
       ELSE \E s \in { search_entries(cache, fileValue, keywords, index, search.query) } :
              IF s.found # -1
              THEN \E fail \in BOOLEAN :
                     LoopTop(s.cache, fileValue, base_entry, keywords, s.found,
                             stack, 0, fail)
              ELSE /\ bpc' = "message"
                   /\ cache' = s.cache
                   /\ search' = [search EXCEPT !.visited = s.visited]
                   /\ UNCHANGED << base_entry, keywords, index, stack, cur, edBuf,
                                   edResult, readErrors >>
    /\ UNCHANGED << fileValue, writeCalls, checkVars, viewVars, classifyVars, sessionVars >>

\* a key dismisses the message; the next loop iteration
BrowserMessageDismiss ==
    /\ bpc = "message"
    /\ \E fail \in BOOLEAN :
        LoopTop(cache, fileValue, base_entry, keywords, index, stack, 0, fail)
    /\ UNCHANGED << fileValue, writeCalls, checkVars, viewVars, classifyVars, sessionVars >>

\* the browser without the editor: moving, descending, searching
NextSearch ==
    \/ BrowserOpen
    \/ BrowserUp
    \/ BrowserDown
    \/ BrowserTop
    \/ BrowserBottom
    \/ BrowserAscend
    \/ BrowserExit
    \/ BrowserDescend
    \/ BrowserSearchPrompt
    \/ BrowserSearchRun
    \/ BrowserMessageDismiss

NextBrowser ==
    \/ BrowserOpen
    \/ BrowserUp
    \/ BrowserDown
    \/ BrowserTop
    \/ BrowserBottom
    \/ BrowserAscend
    \/ BrowserExit
    \/ BrowserDescend
    \/ InlineEditOpen
    \/ EditorInput
    \/ EditorSaveRejected
    \/ EditorSaveFailed
    \/ EditorSaved
    \/ EditorCancelled
    \/ ExternalEditNoChange
    \/ ExternalEditSaved

(***************************************************************************)
(* List views: selection and scrolling (browser.py, app.py, menus.py)      *)
(***************************************************************************)

ViewKinds == {"browser", "check", "menu"}
Heights == 4..MaxHeight

\* _entry_browser_scroll without the clamp to max_scroll
entry_browser_scroll_unclamped(idx, list_scroll, height, total) ==
    LET list_rows == Max(0, height - 1 - 4)
    IN  IF list_rows > 0
        THEN IF idx < list_scroll THEN idx
             ELSE IF idx >= list_scroll + list_rows THEN idx - list_rows + 1
             ELSE list_scroll
        ELSE 0

\* _entry_browser_scroll(index, list_scroll, stdscr, total)
entry_browser_scroll(idx, list_scroll, height, total) ==
    LET list_rows == Max(0, height - 1 - 4)
    IN  IF list_rows > 0
        THEN LET moved == IF idx < list_scroll THEN idx
                          ELSE IF idx >= list_scroll + list_rows
                          THEN idx - list_rows + 1
                          ELSE list_scroll
                 max_scroll == Max(0, total - list_rows)
             IN  IF moved > max_scroll THEN max_scroll ELSE moved
        ELSE 0

\* _menu_scroll(current, scroll, stdscr, total, header_rows)
menu_scroll(current, scroll, height, total, header_rows) ==
    LET visible == Max(0, height - header_rows - 1)
    IN  IF visible <= 0 THEN 0
        ELSE LET moved == IF current < scroll THEN current
                          ELSE IF current >= scroll + visible
                          THEN current - visible + 1
                          ELSE scroll
                 max_scroll == Max(0, total - visible)
             IN  IF moved > max_scroll THEN max_scroll ELSE moved

\* Menu.display: rows left for the options of a menu without banner, extra
\* lines and hint
menu_available(height) == Max(0, height - Min(3, height))

\* Menu.display: the scroll update
menu_display_scroll(selected, scroll, height, total) ==
    LET available == menu_available(height)
    IN  IF available > 0
        THEN LET moved == IF selected < scroll THEN selected
                          ELSE IF selected >= scroll + available
                          THEN selected - available + 1
                          ELSE scroll
                 max_scroll == Max(0, total - available)
             IN  IF moved > max_scroll THEN max_scroll ELSE moved
        ELSE scroll

\* an upward move that stops at the first row
check_menu_up_clamped(current, n) == Max(0, current - 1)

\* _check_syntax_menu: current = (current - 1) % len(labels), (current + 1) % ...
check_menu_up(current, n) == (current - 1) % n
check_menu_down(current, n) == (current + 1) % n

\* Menu._handle_navigation_key: current_option = (current_option - 1) % ...
menu_up(selected, n) == (selected - 1) % n
menu_down(selected, n) == (selected + 1) % n

\* rows the list of a view can show
VisibleRows(kind, height) ==
    CASE kind = "browser" -> Max(0, height - 1 - 4)
      [] kind = "check" -> Max(0, height - 3 - 1)
      [] OTHER -> menu_available(height)

\* the scroll recompute a view runs before it draws again
Rescroll(kind, idx, scroll, height, total) ==
    CASE kind = "browser" -> entry_browser_scroll(idx, scroll, height, total)
      [] kind = "check" -> menu_scroll(idx, scroll, height, total, 3)
      [] OTHER -> menu_display_scroll(idx, scroll, height, total)

UpIndex(kind, idx, n) ==
    CASE kind = "browser" -> browser_up(idx, n)
      [] kind = "check" -> check_menu_up(idx, n)
      [] OTHER -> menu_up(idx, n)

DownIndex(kind, idx, n) ==
    CASE kind = "browser" -> browser_down(idx, n)
      [] kind = "check" -> check_menu_down(idx, n)
      [] OTHER -> menu_down(idx, n)

\* a key that sets the selection to idx, then the scroll recompute
ViewSelect(key, idx) ==
    /\ viewKey' = key
    /\ viewIndex' = idx
    /\ viewScroll' = Rescroll(viewKind, idx, viewScroll, viewHeight, viewTotal)
    /\ UNCHANGED << viewKind, viewTotal, viewHeight, checkVars, browserVars, classifyVars, sessionVars >>

ViewUp ==
    /\ viewKind \in ViewKinds
    /\ ViewSelect("up", UpIndex(viewKind, viewIndex, viewTotal))

ViewDown ==
    /\ viewKind \in ViewKinds
    /\ ViewSelect("down", DownIndex(viewKind, viewIndex, viewTotal))

ViewTop ==
    /\ viewKind \in ViewKinds
    /\ ViewSelect("top", 0)

ViewBottom ==
    /\ viewKind \in ViewKinds
    /\ ViewSelect("bottom", viewTotal - 1)

\* the browser's search sets index to any sibling
ViewSearch ==
    /\ viewKind = "browser"
    /\ \E idx \in 0..(viewTotal - 1) : ViewSelect("search", idx)

\* KEY_RESIZE: the terminal has a new height
ViewResize ==
    /\ viewKind \in ViewKinds
    /\ \E height \in Heights :
        /\ height # viewHeight
        /\ viewHeight' = height
        /\ viewScroll' = Rescroll(viewKind, viewIndex, viewScroll, height, viewTotal)
    /\ viewKey' = "resize"
    /\ UNCHANGED << viewKind, viewTotal, viewIndex, checkVars, browserVars, classifyVars, sessionVars >>

\* the browser descends or ascends: another list, the scroll carried over
ViewLevel ==
    /\ viewKind = "browser"
    /\ \E total \in 1..MaxItems, idx \in 0..(MaxItems - 1) :
        /\ idx < total
        /\ total # viewTotal
        /\ viewTotal' = total
        /\ viewIndex' = idx
        /\ viewScroll' = Rescroll(viewKind, idx, viewScroll, viewHeight, total)
    /\ viewKey' = "level"
    /\ UNCHANGED << viewKind, viewHeight, checkVars, browserVars, classifyVars, sessionVars >>

NextView ==
    \/ ViewUp
    \/ ViewDown
    \/ ViewTop
    \/ ViewBottom
    \/ ViewSearch
    \/ ViewResize
    \/ ViewLevel

(***************************************************************************)
(* Type inference on its own (entry_meta.py choose_validator)              *)
(***************************************************************************)
\* choose_validator has not been called
NoOut == ValidatorAndLabel("none", "none")

ClassifyIdle == cvKey = <<>> /\ cvValue = <<>> /\ cvOut = NoOut

\* key names given to choose_validator
ClassifyKeys ==
    { <<"s", "o", "m", "e", "L", "i", "s", "t">>,
      <<"n", "I", "t", "e", "r", "a", "t", "i", "o", "n", "s">>,
      <<"r", "e", "l", "a", "x", "a", "t", "i", "o", "n", "F", "a", "c", "t", "o", "r">>,
      <<"m", "a", "x", "I", "t", "e", "r">>,
      <<"r", "e", "l", "T", "o", "l">>,
      <<"s", "o", "l", "v", "e", "r">> }

\* tokens that are numeric literals, and tokens that are not
NumTokens == { <<"1">>, <<"2">>, <<"3">>, <<"-", "0", ".", "5">>, <<"1", "e", "-", "3">> }
OtherTokens == { <<"a">>, <<"1", "a">> }

\* "(a b c)" and "( a b c )"
Paren(tokens, pad) == <<"(">> \o pad \o Join(tokens, " ") \o pad \o <<")">>

Pads == { <<>>, <<" ">> }

\* values with three numeric tokens inside one pair of parentheses
ThreeNumeric ==
    { Paren(<< a, b, c >>, pad) : a \in NumTokens, b \in NumTokens,
                                  c \in NumTokens, pad \in Pads }

\* parenthesised values of two or three tokens, numeric or not
ParenValues ==
    LET toks == NumTokens \cup OtherTokens
    IN  { Paren(<< a, b, c >>, pad) : a \in toks, b \in toks, c \in toks, pad \in Pads }
        \cup { Paren(<< a, b >>, pad) : a \in toks, b \in toks, pad \in Pads }

\* scalar and free-text values
ScalarValues ==
    { <<"5">>,
      <<"+", "7">>,
      <<"1", "_", "0", "0", "0">>,
      <<"5", ";">>,
      <<"u", "n", "i", "f", "o", "r", "m", " ", "5">>,
      <<"1", ".", "5">>,
      <<"1", "e", "5">>,
      <<"5", ".">>,
      <<"l", "i", "n", "e", "a", "r">>,
      <<>>,
      <<" ", " ">>,
      <<"o", "n">>,
      <<"G", "a", "u", "s", "s", " ", "l", "i", "n", "e", "a", "r">>,
      <<"i", "n", "f">>,
      <<"d", "i", "v", "(", "p", "h", "i", ")", " ", "2">>,
      <<"(", "1", " ", "2", " ", "3", ")", " ", "4">> }

ClassifyValues == ParenValues \cup ScalarValues

\* validator, label = choose_validator(key, value)
ChooseValidator ==
    /\ cvOut = NoOut
    /\ cvOut' = choose_validator(cvKey, cvValue)
    /\ UNCHANGED << cvKey, cvValue, checkVars, browserVars, viewVars, sessionVars >>

NextClassify == ChooseValidator

(***************************************************************************)
(* Session: run_tui, the root menu and the command line (app.py, menus.py, *)
(* commands.py, config.py)                                                 *)
(***************************************************************************)
NoResult == [result |-> "none", did |-> "none"]

\* run_tui has not been called
SessionIdle ==
    /\ mpc = "off"
    /\ no_foam = FALSE
    /\ env_no_foam = "unset"
    /\ foamCheck = "none"
    /\ menu_options = <<>>
    /\ current_option = 0
    /\ lastKey = "none"
    /\ lastCommand = <<>>
    /\ lastResult = NoResult
    /\ ppc = "closed"
    /\ buffer = <<>>
    /\ cursor = 0
    /\ last_matches = <<>>
    /\ match_index = 0
    /\ last_buffer = <<>>
    /\ promptResult = <<>>
    /\ keysRead = 0
    /\ tabBase = <<>>
    /\ tabRun = 0

\* Config.keys, the default bindings
ConfigKeys ==
    [up |-> <<"k">>, down |-> <<"j">>, select |-> <<"l", "\n">>,
     back |-> <<"h", "q">>, help |-> <<"?">>, command |-> <<":">>,
     search |-> <<"/">>, top |-> <<"g">>, bottom |-> <<"G">>]

\* what getch returns in the root menu: a character (for its code) or the
\* name of a curses key; "x" is bound to nothing
MenuKeys == {"k", "j", "g", "G", "l", "\n", "\r", "h", "q", "?", ":", "/", "x",
             "KEY_UP", "KEY_DOWN", "KEY_ENTER", "KEY_RESIZE", "KEY_LEFT"}

\* key_in(key, labels), for labels of one character
key_in(key, labels) ==
    \E i \in 1..Len(labels) :
        IF labels[i] = "\n" THEN key \in {"\n", "\r"} ELSE key = labels[i]

\* Menu._handle_navigation_key: the action and the new current_option
handle_navigation_key(key, option, n) ==
    IF key = "KEY_UP" \/ key_in(key, ConfigKeys.up)
    THEN [action |-> "continue", option |-> menu_up(option, n)]
    ELSE IF key = "KEY_DOWN" \/ key_in(key, ConfigKeys.down)
    THEN [action |-> "continue", option |-> menu_down(option, n)]
    ELSE IF key_in(key, ConfigKeys.top)
    THEN [action |-> "continue", option |-> 0]
    ELSE IF key_in(key, ConfigKeys.bottom)
    THEN [action |-> "continue", option |-> n - 1]
    ELSE IF key_in(key, ConfigKeys.command)
    THEN [action |-> "command", option |-> option]
    ELSE IF key_in(key, ConfigKeys.search)
    THEN [action |-> "search", option |-> option]
    ELSE IF key = "KEY_RESIZE"
    THEN [action |-> "continue", option |-> option]
    ELSE IF key_in(key, ConfigKeys.help)
    THEN [action |-> "continue", option |-> option]
    ELSE IF key = "KEY_ENTER" \/ key_in(key, ConfigKeys.select)
    THEN [action |-> "select", option |-> option]
    ELSE IF key_in(key, ConfigKeys.back)
    THEN [action |-> "back", option |-> option]
    ELSE [action |-> "none", option |-> option]

\* command lines the prompt returns ("" after ESC or an empty line)
Commands ==
    { <<>>,
      <<"q">>,
      <<":", "q", "u", "i", "t">>,
      <<"h", "e", "l", "p">>,
      <<"n", "o", "f", "o", "a", "m">>,
      <<"n", "o", "-", "f", "o", "a", "m">>,
      <<"F", "o", "a", "m", " ", "o", "f", "f">>,
      <<"n", "o", "f", "o", "a", "m", " ", "o", "n">>,
      <<"n", "o", "f", "o", "a", "m", " ", "0">>,
      <<"f", "o", "a", "m", " ", "m", "a", "y", "b", "e">>,
      <<" ", "t", "o", "o", "l", "s", " ">>,
      <<"t", "o", "o", "l", " ", "b", "l", "o", "c", "k", "M", "e", "s", "h">>,
      <<"c", "h", "e", "c", "k">>,
      <<"r", "e", "r", "u", "n">>,
      <<"z", "z">> }

\* tool names run_tool_by_name knows (two of the aliases of tools.py)
ToolAliases == { <<"b", "l", "o", "c", "k", "m", "e", "s", "h">>, <<"r", "e", "r", "u", "n">> }

\* _normalize_tool_name, for names of letters
normalize_tool_name(name) == Lower(Strip(name))
run_tool_by_name(name) == normalize_tool_name(name) \in ToolAliases

\* str.replace(c, "")
RemoveChar(s, c) == SelectSeq(s, LAMBDA x : x # c)

\* the ':nofoam' / ':foam' branch of handle_command: env is "set", "pop" or
\* "keep" for what happens to OF_TUI_NO_FOAM
nofoam_command(parts, nf, envOK) ==
    LET arg == IF Len(parts) > 1 THEN Lower(parts[2]) ELSE <<>>
        desired ==
            IF Len(parts) > 1 /\ arg \in { <<"o", "n">>, <<"t", "r", "u", "e">>, <<"1">>, <<"y", "e", "s">> }
            THEN TRUE
            ELSE IF Len(parts) > 1 /\ arg \in { <<"o", "f", "f">>, <<"f", "a", "l", "s", "e">>, <<"0">>, <<"n", "o">> }
            THEN FALSE
            ELSE ~nf
    IN  IF ~desired /\ ~envOK
        THEN [result |-> "handled", did |-> "cannot enable foam", no_foam |-> TRUE,
              env |-> "keep", checked |-> TRUE]
        ELSE [result |-> "handled", did |-> "mode set", no_foam |-> desired,
              env |-> IF desired THEN "set" ELSE "pop", checked |-> ~desired]

\* handle_command(command) with state.no_foam = nf, when ensure_environment
\* would succeed (envOK) or raise
handle_command(command, nf, envOK) ==
    LET stripped == Strip(command)
        cmd == IF stripped # <<>> /\ Head(stripped) = ":"
               THEN Strip(Tail(stripped)) ELSE stripped
        parts == SplitWS(cmd)
        name == Lower(parts[1])
        normalized == RemoveChar(RemoveChar(name, "-"), "_")
        tool_name == Join(Tail(parts), " ")
        same(did) == [result |-> "handled", did |-> did, no_foam |-> nf,
                      env |-> "keep", checked |-> FALSE]
    IN  IF cmd = <<>>
        THEN [result |-> "none", did |-> "nothing", no_foam |-> nf,
              env |-> "keep", checked |-> FALSE]
        ELSE IF name \in { <<"q">>, <<"q", "u", "i", "t">>, <<"e", "x", "i", "t">> }
        THEN [result |-> "quit", did |-> "quit", no_foam |-> nf,
              env |-> "keep", checked |-> FALSE]
        ELSE IF name \in { <<"c", "h", "e", "c", "k">>, <<"s", "y", "n", "t", "a", "x">> }
        THEN same("check_syntax")
        ELSE IF name \in { <<"t", "o", "o", "l", "s">>, <<"t", "o", "o", "l">> }
        THEN IF Len(parts) > 1
             THEN IF run_tool_by_name(tool_name) THEN same("tool")
                  ELSE same("unknown tool")
             ELSE same("tools_screen")
        ELSE IF name \in { <<"d", "i", "a", "g">>, <<"d", "i", "a", "g", "n", "o", "s", "t", "i", "c", "s">> }
        THEN same("diagnostics_screen")
        ELSE IF name \in { <<"r", "u", "n">>, <<"s", "o", "l", "v", "e", "r">> }
        THEN IF Len(parts) > 1
             THEN IF run_tool_by_name(tool_name) THEN same("tool")
                  ELSE same("unknown tool")
             ELSE same("run_current_solver")
        ELSE IF normalized \in { <<"n", "o", "f", "o", "a", "m">>, <<"f", "o", "a", "m">> }
        THEN nofoam_command(parts, nf, envOK)
        ELSE IF name \in { <<"h", "e", "l", "p">>, <<"?">> }
        THEN same("help")
        ELSE IF run_tool_by_name(cmd) THEN same("tool")
        ELSE same("unknown command")

\* OF_TUI_NO_FOAM after os.environ[...] = "1" / pop / neither
EnvAfter(env, how) ==
    IF how = "set" THEN "1" ELSE IF how = "pop" THEN "unset" ELSE env

\* run_tui: AppState(no_foam = no_foam) and the environment variable
RunTui ==
    /\ mpc = "off"
    /\ \E nf \in BOOLEAN :
        /\ no_foam' = nf
        /\ env_no_foam' = IF nf THEN "1" ELSE "unset"
    /\ mpc' = "main"
    /\ UNCHANGED << foamCheck, menu_options, current_option, lastKey,
                    lastCommand, lastResult >>
    /\ UNCHANGED << promptVars, checkVars, browserVars, viewVars, classifyVars >>

\* _main: the environment check in foam mode; a failure ends the program
Main ==
    /\ mpc = "main"
    /\ IF no_foam
       THEN mpc' = "loop" /\ UNCHANGED foamCheck
       ELSE \E ok \in BOOLEAN :
              /\ foamCheck' = IF ok THEN "ok" ELSE "failed"
              /\ mpc' = IF ok THEN "loop" ELSE "ended"
    /\ UNCHANGED << no_foam, env_no_foam, menu_options, current_option, lastKey,
                    lastCommand, lastResult >>
    /\ UNCHANGED << promptVars, checkVars, browserVars, viewVars, classifyVars >>

\* menu_options of _main_menu_screen
MenuOptions(has_fzf) ==
    <<"Editor", "Check syntax", "Tools", "Diagnostics">>
        \o (IF has_fzf THEN <<"Global search">> ELSE <<>>) \o <<"Quit">>

\* _main_loop at Screen.MAIN_MENU: _main_menu_screen builds a RootMenu
MainMenuScreen ==
    /\ mpc = "loop"
    /\ \E has_fzf \in BOOLEAN : menu_options' = MenuOptions(has_fzf)
    /\ current_option' = 0
    /\ mpc' = "menu"
    /\ UNCHANGED << no_foam, env_no_foam, foamCheck, lastKey, lastCommand,
                    lastResult >>
    /\ UNCHANGED << promptVars, checkVars, browserVars, viewVars, classifyVars >>

\* the root menu reads `key`; what navigate does with it is in the action
RootKey(key, action) ==
    /\ mpc = "menu"
    /\ key \in MenuKeys
    /\ handle_navigation_key(key, current_option, Len(menu_options)).action = action
    /\ lastKey' = key

\* a key that moves the selection, shows the help, or is bound to nothing
RootContinue ==
    \E key \in MenuKeys :
        /\ RootKey(key, handle_navigation_key(key, current_option,
                                              Len(menu_options)).action)
        /\ handle_navigation_key(key, current_option, Len(menu_options)).action
              \in {"continue", "none"}
        /\ current_option' =
              handle_navigation_key(key, current_option, Len(menu_options)).option
        /\ UNCHANGED << mpc, no_foam, env_no_foam, foamCheck, menu_options,
                        lastCommand, lastResult >>
        /\ UNCHANGED << promptVars, checkVars, browserVars, viewVars, classifyVars >>

\* the command key: the prompt returns a command line, handle_command runs
\* it; "quit" ends navigate with -1 and with it the main loop
RootCommand ==
    \E key \in MenuKeys, command \in Commands, envOK \in BOOLEAN :
        /\ RootKey(key, "command")
        /\ IF command = <<>>
           THEN UNCHANGED << mpc, no_foam, env_no_foam, foamCheck, lastCommand,
                             lastResult >>
           ELSE \E r \in { handle_command(command, no_foam, envOK) } :
                  /\ ~r.checked => envOK
                  /\ lastCommand' = command
                  /\ lastResult' = [result |-> r.result, did |-> r.did]
                  /\ no_foam' = r.no_foam
                  /\ env_no_foam' = EnvAfter(env_no_foam, r.env)
                  /\ foamCheck' = IF r.checked
                                  THEN IF envOK THEN "ok" ELSE "failed"
                                  ELSE foamCheck
                  /\ mpc' = IF r.result = "quit" THEN "ended" ELSE "menu"
        /\ UNCHANGED << menu_options, current_option >>
        /\ UNCHANGED << promptVars, checkVars, browserVars, viewVars, classifyVars >>

\* the search key: _fzf_pick_option gives an index or None
RootSearch ==
    \E key \in MenuKeys, idx \in -1..(Len(menu_options) - 1) :
        /\ RootKey(key, "search")
        /\ idx # -1 => Len(menu_options) = 6
        /\ current_option' = IF idx = -1 THEN current_option ELSE idx
        /\ UNCHANGED << mpc, no_foam, env_no_foam, foamCheck, menu_options,
                        lastCommand, lastResult >>
        /\ UNCHANGED << promptVars, checkVars, browserVars, viewVars, classifyVars >>

\* the select key: navigate returns current_option; "Quit" ends the main
\* loop, any other option is a screen
RootSelect ==
    \E key \in MenuKeys :
        /\ RootKey(key, "select")
        /\ mpc' = IF current_option = Len(menu_options) - 1 THEN "ended"
                  ELSE "screen"
        /\ UNCHANGED << no_foam, env_no_foam, foamCheck, menu_options,
                        current_option, lastCommand, lastResult >>
        /\ UNCHANGED << promptVars, checkVars, browserVars, viewVars, classifyVars >>

\* the back key: navigate returns -1, _main_menu_screen None, the loop ends
RootBack ==
    \E key \in MenuKeys :
        /\ RootKey(key, "back")
        /\ mpc' = "ended"
        /\ UNCHANGED << no_foam, env_no_foam, foamCheck, menu_options,
                        current_option, lastCommand, lastResult >>
        /\ UNCHANGED << promptVars, checkVars, browserVars, viewVars, classifyVars >>

\* the screen chosen in the menu returns; next_screen = Screen.MAIN_MENU
ScreenReturns ==
    /\ mpc = "screen"
    /\ mpc' = "loop"
    /\ UNCHANGED << no_foam, env_no_foam, foamCheck, menu_options,
                    current_option, lastKey, lastCommand, lastResult >>
    /\ UNCHANGED << promptVars, checkVars, browserVars, viewVars, classifyVars >>

NextMenu ==
    \/ RunTui
    \/ Main
    \/ MainMenuScreen
    \/ RootContinue
    \/ RootCommand
    \/ RootSearch
    \/ RootSelect
    \/ RootBack
    \/ ScreenReturns

(***************************************************************************)
(* The command prompt (_prompt_command in app.py and menus.py, the same    *)
(* code twice)                                                             *)
(***************************************************************************)
\* command_suggestions: sorted(set(base + tool forms)) for the tool names
\* blockmesh and rerun
CommandSuggestions ==
    << <<"b", "l", "o", "c", "k", "m", "e", "s", "h">>,
       <<"c", "h", "e", "c", "k">>,
       <<"d", "i", "a", "g">>,
       <<"h", "e", "l", "p">>,
       <<"n", "o", "-", "f", "o", "a", "m">>,
       <<"n", "o", "f", "o", "a", "m">>,
       <<"q", "u", "i", "t">>,
       <<"r", "e", "r", "u", "n">>,
       <<"r", "u", "n">>,
       <<"r", "u", "n", " ", "b", "l", "o", "c", "k", "m", "e", "s", "h">>,
       <<"r", "u", "n", " ", "r", "e", "r", "u", "n">>,
       <<"t", "o", "o", "l", " ", "b", "l", "o", "c", "k", "m", "e", "s", "h">>,
       <<"t", "o", "o", "l", " ", "r", "e", "r", "u", "n">>,
       <<"t", "o", "o", "l", "s">> >>

\* printable keys typed at the prompt
PromptChars == {"n", "r", "u"}

\* s.startswith(prefix)
StartsWith(s, prefix) ==
    Len(prefix) <= Len(s) /\ SubSeq(s, 1, Len(prefix)) = prefix

\* [s for s in pool if s.startswith(current)]
Matches(pool, current) == SelectSeq(pool, LAMBDA s : StartsWith(s, current))

\* a key is read while the budget of keys lasts; any key but TAB ends a run
\* of TABs
PromptKey(tab) ==
    /\ ppc = "getch"
    /\ keysRead < MaxPromptKeys
    /\ keysRead' = keysRead + 1
    /\ tabRun' = IF tab THEN tabRun + 1 ELSE 0
    /\ tabBase' = IF tab /\ tabRun = 0 THEN buffer ELSE tabBase

\* ENTER: "".join(buffer).strip()
PromptEnter ==
    /\ PromptKey(FALSE)
    /\ ppc' = "returned"
    /\ promptResult' = Strip(buffer)
    /\ UNCHANGED << buffer, cursor, last_matches, match_index, last_buffer >>
    /\ UNCHANGED << menuVars, checkVars, browserVars, viewVars, classifyVars >>

\* ESC: ""
PromptEscape ==
    /\ PromptKey(FALSE)
    /\ ppc' = "returned"
    /\ promptResult' = <<>>
    /\ UNCHANGED << buffer, cursor, last_matches, match_index, last_buffer >>
    /\ UNCHANGED << menuVars, checkVars, browserVars, viewVars, classifyVars >>

\* list.pop(i) for the 0-based position i
ListPop(s, i) == SubSeq(s, 1, i) \o SubSeq(s, i + 2, Len(s))

\* list.insert(i, c)
ListInsert(s, i, c) == SubSeq(s, 1, i) \o <<c>> \o SubSeq(s, i + 1, Len(s))

\* BACKSPACE
PromptBackspace ==
    /\ PromptKey(FALSE)
    /\ IF cursor > 0
       THEN buffer' = ListPop(buffer, cursor - 1) /\ cursor' = cursor - 1
       ELSE UNCHANGED << buffer, cursor >>
    /\ UNCHANGED << ppc, promptResult, last_matches, match_index, last_buffer >>
    /\ UNCHANGED << menuVars, checkVars, browserVars, viewVars, classifyVars >>

\* KEY_LEFT
PromptLeft ==
    /\ PromptKey(FALSE)
    /\ cursor' = IF cursor > 0 THEN cursor - 1 ELSE cursor
    /\ UNCHANGED << ppc, promptResult, buffer, last_matches, match_index,
                    last_buffer >>
    /\ UNCHANGED << menuVars, checkVars, browserVars, viewVars, classifyVars >>

\* KEY_RIGHT
PromptRight ==
    /\ PromptKey(FALSE)
    /\ cursor' = IF cursor < Len(buffer) THEN cursor + 1 ELSE cursor
    /\ UNCHANGED << ppc, promptResult, buffer, last_matches, match_index,
                    last_buffer >>
    /\ UNCHANGED << menuVars, checkVars, browserVars, viewVars, classifyVars >>

\* the TAB branch: the new buffer, cursor, last_matches, match_index and
\* last_buffer
tab_completion(pool, buf, pos, matches, mi, lb) ==
    LET current == buf
        fresh == current # lb
        lm == IF fresh THEN Matches(pool, current) ELSE matches
        m0 == IF fresh THEN 0 ELSE mi
        lb1 == IF fresh THEN current ELSE lb
    IN  IF lm # <<>>
        THEN [buffer |-> lm[(m0 % Len(lm)) + 1],
              cursor |-> Len(lm[(m0 % Len(lm)) + 1]),
              last_matches |-> lm, match_index |-> m0 + 1, last_buffer |-> lb1]
        ELSE [buffer |-> buf, cursor |-> pos,
              last_matches |-> lm, match_index |-> m0, last_buffer |-> lb1]

\* TAB
PromptTab ==
    /\ PromptKey(TRUE)
    /\ \E r \in { tab_completion(CommandSuggestions, buffer, cursor, last_matches,
                                 match_index, last_buffer) } :
        /\ buffer' = r.buffer
        /\ cursor' = r.cursor
        /\ last_matches' = r.last_matches
        /\ match_index' = r.match_index
        /\ last_buffer' = r.last_buffer
    /\ UNCHANGED << ppc, promptResult >>
    /\ UNCHANGED << menuVars, checkVars, browserVars, viewVars, classifyVars >>

\* a printable key: buffer.insert(cursor, chr(key))
PromptType ==
    /\ PromptKey(FALSE)
    /\ \E c \in PromptChars : buffer' = ListInsert(buffer, cursor, c)
    /\ cursor' = cursor + 1
    /\ UNCHANGED << ppc, promptResult, last_matches, match_index, last_buffer >>
    /\ UNCHANGED << menuVars, checkVars, browserVars, viewVars, classifyVars >>

NextPrompt ==
    \/ PromptEnter
    \/ PromptEscape
    \/ PromptBackspace
    \/ PromptLeft
    \/ PromptRight
    \/ PromptTab
    \/ PromptType

(***************************************************************************)
(* Specifications                                                          *)
(***************************************************************************)
\* no list view is followed
ViewIdle ==
    /\ viewKind = "none"
    /\ viewTotal = 0
    /\ viewIndex = 0
    /\ viewScroll = 0
    /\ viewHeight = 0
    /\ viewKey = "none"

\* a session with the check screen; no entry browser is open
InitCheck ==
    /\ AppStateInit
    /\ SessionIdle
    /\ ViewIdle
    /\ ClassifyIdle
    /\ BrowserClosed
    /\ fileValue = InitialFile
    /\ writeCalls = 0
    /\ readErrors = 0

SpecCheck == InitCheck /\ [][NextCheck]_vars

\* a session in the entry browser; no check is started
InitBrowser ==
    /\ AppStateInit
    /\ SessionIdle
    /\ ViewIdle
    /\ ClassifyIdle
    /\ fileOutcome = [f \in Files |-> CheckOutcomes[(f % 4) + 1]]
    /\ BrowserClosed
    /\ fileValue = InitialFile
    /\ writeCalls = 0
    /\ readErrors = 0

SpecBrowser == InitBrowser /\ [][NextBrowser]_vars

SpecSearch == InitBrowser /\ [][NextSearch]_vars

\* a list view is opened: the first row selected, nothing scrolled
InitView ==
    /\ AppStateInit
    /\ SessionIdle
    /\ ClassifyIdle
    /\ fileOutcome = [f \in Files |-> CheckOutcomes[(f % 4) + 1]]
    /\ BrowserClosed
    /\ fileValue = InitialFile
    /\ writeCalls = 0
    /\ readErrors = 0
    /\ viewKind \in ViewKinds
    /\ viewTotal \in 1..MaxItems
    /\ viewHeight \in Heights
    /\ viewIndex = 0
    /\ viewScroll = 0
    /\ viewKey = "none"

SpecView == InitView /\ [][NextView]_vars

\* choose_validator is about to be called on one key and one value
InitClassify ==
    /\ AppStateInit
    /\ SessionIdle
    /\ fileOutcome = [f \in Files |-> CheckOutcomes[(f % 4) + 1]]
    /\ BrowserClosed
    /\ fileValue = InitialFile
    /\ writeCalls = 0
    /\ readErrors = 0
    /\ ViewIdle
    /\ cvKey \in ClassifyKeys
    /\ cvValue \in ClassifyValues
    /\ cvOut = NoOut

SpecClassify == InitClassify /\ [][NextClassify]_vars

\* a session from the call of run_tui; OF_TUI_NO_FOAM is whatever the
\* caller's environment has
InitMenu ==
    /\ AppStateInit
    /\ ViewIdle
    /\ ClassifyIdle
    /\ fileOutcome = [f \in Files |-> CheckOutcomes[(f % 4) + 1]]
    /\ BrowserClosed
    /\ fileValue = InitialFile
    /\ writeCalls = 0
    /\ readErrors = 0
    /\ mpc = "off"
    /\ no_foam = FALSE
    /\ env_no_foam \in {"unset", "1", "0"}
    /\ foamCheck = "none"
    /\ menu_options = <<>>
    /\ current_option = 0
    /\ lastKey = "none"
    /\ lastCommand = <<>>
    /\ lastResult = NoResult
    /\ ppc = "closed"
    /\ buffer = <<>>
    /\ cursor = 0
    /\ last_matches = <<>>
    /\ match_index = 0
    /\ last_buffer = <<>>
    /\ promptResult = <<>>
    /\ keysRead = 0
    /\ tabBase = <<>>
    /\ tabRun = 0

SpecMenu == InitMenu /\ [][NextMenu]_vars

\* _prompt_command has been called and waits for its first key
InitPrompt ==
    /\ AppStateInit
    /\ ViewIdle
    /\ ClassifyIdle
    /\ fileOutcome = [f \in Files |-> CheckOutcomes[(f % 4) + 1]]
    /\ BrowserClosed
    /\ fileValue = InitialFile
    /\ writeCalls = 0
    /\ readErrors = 0
    /\ mpc = "off"
    /\ no_foam = FALSE
    /\ env_no_foam = "unset"
    /\ foamCheck = "none"
    /\ menu_options = <<>>
    /\ current_option = 0
    /\ lastKey = "none"
    /\ lastCommand = <<>>
    /\ lastResult = NoResult
    /\ ppc = "getch"
    /\ buffer = <<>>
    /\ cursor = 0
    /\ last_matches = <<>>
    /\ match_index = 0
    /\ last_buffer = <<>>
    /\ promptResult = <<>>
    /\ keysRead = 0
    /\ tabBase = <<>>
    /\ tabRun = 0

SpecPrompt == InitPrompt /\ [][NextPrompt]_vars

(***************************************************************************)
(* Verification pipeline: properties                                       *)
(***************************************************************************)
\* the dict state.check_results refers to (empty for None)
ResultsDict == Deref(check_results)

\* a worker thread that was launched and has not ended
Running(w) == workerPc[w] \notin {"idle", "done", "dead"}

\* worker w takes its last locked block in this step
EndsRun(w) == workerPc[w] = "end" /\ workerPc'[w] = "done"

\* worker w takes its first locked block in this step
BeginsRun(w) == workerPc[w] = "start" /\ workerPc'[w] # "start"

\* C1: while a launched worker has not yet ended its run, a start request
\* launches no further worker and changes none of the shared fields.
C1_NoSecondWorker ==
    [][ (\E w \in Workers : Running(w)) /\ uiPc \in {"decide1", "decide2"}
            /\ uiPc' # uiPc
        => /\ \A v \in Workers : workerPc[v] = "idle" => workerPc'[v] = "idle"
           /\ UNCHANGED sharedVars ]_vars

\* C2: the step that ends a run aborted by OpenFOAMError/OSError leaves the
\* entries stored so far in results and sets check_in_progress to false.
C2_AbortKeepsResults ==
    [][ \A w \in Workers : EndsRun(w) /\ workerAbort[w]
            => ResultsDict' = ResultsDict /\ ~check_in_progress' ]_vars

\* C3: no step of a run, the last one included, removes an entry of results
\* or replaces it by a different value.
C3_EntriesStable ==
    [][ (\A w \in Workers : ~BeginsRun(w))
        => \A f \in DOMAIN ResultsDict :
              f \in DOMAIN ResultsDict' /\ ResultsDict'[f] = ResultsDict[f] ]_vars

\* C4: whenever the UI thread is about to read a field of the run state
\* (start decision, result table, status line) it holds check_lock.
C4_ReadsUnderLock ==
    uiPc \in {"decide1", "decide2", "labels", "scan", "statusL"}
        => check_lock = LockUI

\* C5: a started run reaches check_in_progress = FALSE: once no worker
\* thread is left running, check_in_progress is false.
C5_RunEnds ==
    (\A w \in Workers : ~Running(w)) => ~check_in_progress

\* C6: the step that ends a run without process-level failure leaves one
\* entry per discovered file, done = total = N and check_in_progress false.
C6_CompleteRun ==
    [][ \A w \in Workers : EndsRun(w) /\ ~workerAbort[w]
            => /\ DOMAIN ResultsDict' = Files
               /\ check_done' = NumFiles
               /\ check_total' = NumFiles
               /\ ~check_in_progress' ]_vars

\* worker w's progress_callback runs in this step
Completes(w) == workerPc[w] = "progress" /\ workerPc'[w] # "progress"

\* C24: within one run check_done never decreases from one state to the next,
\* and files complete (check_done incremented, check_current set to the file)
\* in the discovery order: the k-th completion is that of the k-th file.
C24_DoneMonotoneInOrder ==
    [][ /\ check_in_progress /\ check_in_progress' => check_done' >= check_done
        /\ \A w \in Workers : Completes(w)
              => /\ check_done' = check_done + 1
                 /\ check_done' <= Len(FileOrder)
                 /\ check_current' = FileOrder[check_done'] ]_vars

\* worker w's result_callback runs in this step
Publishes(w) == workerPc[w] = "result" /\ workerPc'[w] # "result"

\* C25: an engine-reported error of one file does not end the run: the file
\* gets a result with checked = TRUE and its errors, the worker goes on to
\* the next file, and a run that ends without process-level failure has
\* checked every file.
C25_FileErrorDoesNotEndRun ==
    [][ \A w \in Workers :
          /\ Publishes(w)
              => /\ CurrentFile(w) \in DOMAIN ResultsDict'
                 /\ ResultsDict'[CurrentFile(w)].checked
                 /\ ResultsDict'[CurrentFile(w)].errors = fileOutcome[CurrentFile(w)].errors
          /\ Completes(w)
              => IF workerIdx[w] < Len(FileOrder)
                 THEN workerPc'[w] = "check" /\ workerIdx'[w] = workerIdx[w] + 1
                 ELSE workerPc'[w] = "end"
          /\ workerPc'[w] = "end" /\ ~workerAbort'[w]
              => DOMAIN heap'[<<"local", w>>] = Files ]_vars

\* the file with errors was first in the discovery order; all files have a result
C25_Witness ==
    /\ fileOutcome[FileOrder[1]].errors # <<>>
    /\ DOMAIN ResultsDict = Files
    /\ ResultsDict[FileOrder[1]].errors # <<>>
    /\ ~check_in_progress

C27_StatusLineSnapshot ==
    [][ /\ uiPc = "statusL" /\ uiPc' = "getch"
            => /\ ~check_in_progress => uiStatus' = NoStatus
               /\ check_in_progress
                    => /\ uiStatus'.shown
                       /\ uiStatus'.done = check_done
                       /\ uiStatus'.total = check_total
                       /\ uiStatus'.current = check_current
        /\ check_lock = LockUI => UNCHANGED sharedVars ]_vars

\* the status line was read while the first file was complete
C27_Witness ==
    /\ uiPc = "getch"
    /\ uiStatus.shown
    /\ uiStatus.done = 1
    /\ uiStatus.current = FileOrder[1]

\* C31: the worker holds check_lock only inside its four field-update blocks,
\* never while it discovers files or checks a file, so whenever the UI thread
\* wants the lock for the status line the lock is free: the UI does not wait
\* for a file check and no state has the UI blocked on the lock.
C31_UINeverWaitsForCheck ==
    /\ \A w \in Workers : check_lock # LockWorker(w)
    /\ uiPc = "status" => check_lock = LockFree
    /\ check_lock = LockUI => uiPc = "statusL"

\* the UI thread holds the lock for the status line while a worker is in the
\* middle of a file check
C31_Witness ==
    /\ uiPc = "statusL"
    /\ check_lock = LockUI
    /\ \E w \in Workers : workerPc[w] = "check" /\ workerIdx[w] = 2

\* C33: while a run is in progress 0 <= check_done <= check_total in every
\* state (each is one the UI can read under the lock), and check_total keeps
\* the value set at the start of the run until the run ends.
C33_DoneWithinTotal ==
    [][ /\ check_in_progress
            => 0 <= check_done /\ check_done <= check_total
        /\ check_in_progress /\ check_in_progress'
            => check_total' = check_total ]_vars

\* some worker has taken its last locked block: a run has ended
RunEnded == \E w \in Workers : workerPc[w] = "done"

\* the completed state of the run state machine
Completed == ~check_in_progress /\ check_results # NoneRef

\* C34: once a run has ended, check_results stays non-None, no entry into the
\* check screen starts another worker, and the run state stays completed
\* (not in progress, results present).
C34_CompletedIsFinal ==
    [][ RunEnded
        => /\ check_results' # NoneRef
           /\ \A v \in Workers : workerPc[v] = "idle" => workerPc'[v] = "idle"
           /\ Completed' ]_vars

\* the label the claim gives to a result (NoCheck: the file has no result)
ClaimedLabel(check) ==
    CASE check = NoCheck -> <<"Not checked", 0>>
      [] check # NoCheck /\ ~check.checked -> <<"Not checked", 0>>
      [] check # NoCheck /\ check.checked /\ Len(check.errors) > 0
            -> <<"ERROR", Len(check.errors)>>
      [] check # NoCheck /\ check.checked /\ Len(check.errors) = 0
            /\ Len(check.warnings) > 0 -> <<"Warn", Len(check.warnings)>>
      [] OTHER -> <<"OK", 0>>

\* C28: the label of a file is a function of its result only: "Not checked"
\* without a result or with checked false, else "ERROR (n)" when there are
\* errors (warnings or not), else "Warn (n)" when there are warnings, else "OK".
C28_LabelFromResult ==
    [][ uiPc = "scan" /\ Len(uiLabels') = Len(uiLabels) + 1
        => uiLabels'[Len(uiLabels')] =
              ClaimedLabel(DictGet(Deref(uiRef), FileOrder[Len(uiLabels')])) ]_vars

\* after a run over three files with 2 errors, 1 warning and neither, the
\* labels are ERROR (2), Warn (1) and OK
C28_Witness ==
    /\ uiPc = "getch"
    /\ ~check_in_progress
    /\ Len(uiLabels) = 3
    /\ { uiLabels[i] : i \in 1..3 } = { <<"ERROR", 2>>, <<"Warn", 1>>, <<"OK", 0>> }

(***************************************************************************)
(* Entry metadata cache: properties                                        *)
(***************************************************************************)
\* the key the browser has resolved at the top of its loop has an enum set
EnumKey == bpc # "closed" /\ get_entry_enum_values(cur.key) # <<>>

\* the loop iteration that follows editor.edit() for the key in `cur`
EditorEnds == bpc = "editor" /\ bpc' = "getch"
CancelStep == EditorEnds /\ writeCalls' = writeCalls
SaveStep == EditorEnds /\ writeCalls' = writeCalls + 1

\* texts handed to a validator to compare it with the enum validator
ProbeTexts ==
    { <<"P", "C", "G">>, <<" ", "G", "A", "M", "G", ";", " ">>, <<"5">>,
      <<"f", "i", "x", "e", "d", "V", "a", "l", "u", "e", ";">>, <<"z", "e", "r", "o">>, <<>> }

\* C7: for a key with a non-empty enum set the type label resolve returns
\* is "enum" in every state (first resolve, cache hit, after a refresh).
C7_EnumLabel == EnumKey => cur.meta.type_label = "enum"

\* C8: for a key with a non-empty enum set the validator resolve returns
\* accepts a text iff its stripped, semicolon-free form is an allowed value.
C8_EnumValidator ==
    EnumKey => \A t \in ProbeTexts :
                  Accepts(cur.validator, t)
                      <=> StripSemi(t) \in RangeOf(get_entry_enum_values(cur.key))

\* C9: an editor that ends cancelled leaves the whole cache as it was and
\* write_entry was not called.
C9_CancelNoEffect ==
    [][ CancelStep => /\ writeCalls' = writeCalls
                      /\ \A k \in DOMAIN cache :
                            k \in DOMAIN cache' /\ cache'[k] = cache[k] ]_vars

\* C10: after a successful save of K the cache entry of K is the tuple a
\* fresh resolve gives, and the entries of all other keys are unchanged.
C10_SaveRefreshes ==
    [][ SaveStep => /\ cache'[cur.key] = MissTuple(fileValue', cur.key, FALSE)
                    /\ \A k \in DOMAIN cache \ {cur.key} :
                          k \in DOMAIN cache' /\ cache'[k] = cache[k] ]_vars

\* C29: when the engine fails to read the value of the key being resolved,
\* resolve returns and caches metadata whose value is the placeholder
\* "<error reading value>", the entries of the other keys are untouched and
\* the browser waits for the next key.
C29_ReadFailureGivesPlaceholder ==
    [][ readErrors' > readErrors
        => /\ bpc' = "getch"
           /\ cur'.key = FullKey(base_entry', keywords'[index' + 1])
           /\ cur'.meta.value = ErrorValue
           /\ cur'.key \in DOMAIN cache'
           /\ cache'[cur'.key] = cur'.meta
           /\ \A k \in DOMAIN cache : k \in DOMAIN cache' /\ cache'[k] = cache[k] ]_vars

\* the read of solver failed; the user has since moved on, descended twice
\* and sees the value of boundaryField.inlet.type
C29_Witness ==
    /\ bpc = "getch"
    /\ K_solver \in DOMAIN cache
    /\ cache[K_solver].value = ErrorValue
    /\ cur.key = K_bf_inlet_type
    /\ cur.meta.value = fileValue[K_bf_inlet_type]

\* the read of refresh_entry_cache fails in this step: it is the only read
\* of the steps that end the editor or write from the external editor
RefreshFails ==
    /\ EditorEnds \/ (bpc = "getch" /\ fileValue' # fileValue)
    /\ readErrors' > readErrors

\* C30: when the engine read fails during refresh_entry_cache of key K, the
\* operation returns and the whole cache, the entry of K included, is as it
\* was before the call.
C30_FailedRefreshKeepsCache ==
    [][ RefreshFails => cache' = cache /\ bpc' = "getch" ]_vars

\* solver was saved as GAMG, the refresh failed, the cache still says PCG
C30_Witness ==
    /\ bpc = "getch"
    /\ writeCalls = 1
    /\ readErrors = 1
    /\ K_solver \in DOMAIN cache
    /\ cache[K_solver].value = <<"P", "C", "G">>
    /\ fileValue[K_solver] = <<"G", "A", "M", "G">>

(***************************************************************************)
(* Entry editor and navigation: properties                                 *)
(***************************************************************************)
\* the validator handed to the editor reports an error for the normalized buffer
BufferRejected == bpc = "editor" /\ ~Accepts(cur.validator, autoformat_value(edBuf))

C12_DictNotEditedAsScalar ==
    [][ bpc = "getch" /\ (bpc' = "editor" \/ writeCalls' # writeCalls)
        => cur.meta.subkeys = <<>> ]_vars

\* the navigation state (baseKey, siblingKeys, index)
Level == << base_entry, keywords, index >>
Front(seq) == SubSeq(seq, 1, Len(seq) - 1)
DescendStep == Len(stack') > Len(stack)
AscendStep == Len(stack') < Len(stack)

\* C13: a descend saves the navigation state it leaves on top of the
\* unchanged stack, and an ascend puts back exactly the state on top of the
\* stack and removes it: a descend followed by an ascend (and k descends
\* followed by k ascends) gives back (baseKey, siblingKeys, index) and the
\* stack as they were.
C13_DescendAscendRestores ==
    [][ /\ DescendStep => stack' = Append(stack, Level)
        /\ AscendStep => Level' = stack[Len(stack)] /\ stack' = Front(stack) ]_vars

\* back on the top level at the third key after two descends and two ascends
C13_Witness ==
    /\ bpc = "getch"
    /\ stack = <<>>
    /\ index = 2
    /\ K_bf_inlet_type \in DOMAIN cache

\* the key selected in a pushed frame (base_entry, keywords, index)
SelectedKey(frame) == frame[2][frame[3] + 1]

\* C14: while the browser runs the stack is empty exactly when base_entry
\* is None, and otherwise base_entry is the dotted path of the keys selected
\* in the pushed frames, one per nesting level.
C14_StackMatchesDepth ==
    bpc # "closed"
    => /\ (stack = <<>>) <=> (base_entry = <<>>)
       /\ stack # <<>>
            => base_entry = Join([i \in 1..Len(stack) |-> SelectedKey(stack[i])], ".")

\* two levels below the file root
C14_Witness == bpc = "getch" /\ Len(stack) = 2 /\ base_entry = K_bf_inlet

\* the handler of KEY_LEFT / "back"
BackKey == BrowserAscend \/ BrowserExit

\* C15: the back key ends the browser exactly when the stack is empty;
\* with a non-empty stack it removes the top frame only and the browser
\* waits for the next key.
C15_AscendExitsIffEmpty ==
    [][ BackKey => /\ (bpc' = "closed") <=> (stack = <<>>)
                   /\ stack # <<>> => stack' = Front(stack) /\ bpc' = "getch" ]_vars

\* the browser was left after an edit session
C15_Witness == bpc = "closed" /\ writeCalls = 1

\* the handler of l / e / Right / Enter
SelectKey == BrowserDescend \/ InlineEditOpen

\* C16: a step descends only from an entry that is the resolved
\* keywords[index] and has sub-keys; it pushes (base_entry, keywords, index)
\* and sets base_entry to the full key, keywords to the sub-keys and index to
\* 0.  A select on an entry without sub-keys, and the editor it opens,
\* leave base_entry, keywords and the stack alone.
C16_DescendOnlyIntoDict ==
    [][ /\ DescendStep
            => /\ cur.key = FullKey(base_entry, keywords[index + 1])
               /\ cur.meta.subkeys # <<>>
               /\ stack' = Append(stack, << base_entry, keywords, index >>)
               /\ base_entry' = cur.key
               /\ keywords' = cur.meta.subkeys
               /\ index' = 0
        /\ (SelectKey /\ cur.meta.subkeys = <<>>) \/ bpc = "editor"
            => UNCHANGED << base_entry, keywords, stack >> ]_vars

\* just descended from the third top-level key into boundaryField
C16_Witness ==
    /\ bpc = "getch"
    /\ stack = << << <<>>, list_keywords, 2 >> >>
    /\ base_entry = K_boundaryField
    /\ keywords = << K_inlet >>
    /\ index = 0

(***************************************************************************)
(* Search: properties                                                      *)
(***************************************************************************)
\* what sibling i offers to a search: its key name, its resolved value and its
\* comments, lower-cased (the metadata the browser shows for it)
SiblingHaystack(i) ==
    Haystack(keywords[i + 1],
             get_entry_metadata(cache, fileValue,
                                FullKey(base_entry, keywords[i + 1]), FALSE).meta)

\* the first index in the order (index+1) mod n, ..., index whose sibling
\* contains the lower-cased query; -1 when no sibling does
FirstMatch(q) ==
    LET n == Len(keywords)
        steps == { st \in 1..n : Contains(SiblingHaystack((index + st) % n), Lower(q)) }
    IN  IF steps = {} THEN -1
        ELSE (index + (CHOOSE st \in steps : \A t \in steps : st <= t)) % n

\* a non-empty query is entered at the search prompt
SearchStep == bpc = "search" /\ search.query # <<>>

NoRepeats(seq) == \A i, j \in 1..Len(seq) : i # j => seq[i] # seq[j]

\* C18: for a query that matches no sibling (key name, resolved value,
\* comments, case-insensitively) the scan looks at each sibling at most once,
\* index, base_entry, keywords and stack are unchanged, and the "No matches"
\* message is shown.
C18_NoMatchKeepsIndex ==
    [][ SearchStep /\ FirstMatch(search.query) = -1
        => /\ bpc' = "message"
           /\ NoRepeats(search'.visited)
           /\ Len(search'.visited) <= Len(keywords)
           /\ UNCHANGED << index, base_entry, keywords, stack >> ]_vars

\* C19: a search from index i over n siblings returns the first index in the
\* cyclic order (i+1) mod n, ..., i whose haystack contains the lower-cased
\* query (i itself last).
C19_FirstMatchInCyclicOrder ==
    [][ SearchStep /\ FirstMatch(search.query) # -1
        => bpc' = "getch" /\ index' = FirstMatch(search.query) ]_vars

C35_SearchUsesDottedKey ==
    [][ SearchStep /\ base_entry # <<>>
        => (DOMAIN cache') \ (DOMAIN cache)
              \subseteq { FullKey(base_entry, keywords[i]) : i \in 1..Len(keywords) } ]_vars

(***************************************************************************)
(* List views: properties                                                  *)
(***************************************************************************)
\* C17: with n rows, down from the last row gives 0 and otherwise the next
\* row, up from row 0 gives n - 1 and otherwise the row before; with n = 1
\* both give 0; in the entry browser, the check list and the menus alike.
C17_MovesWrap ==
    [][ /\ viewKey' = "down"
            => viewIndex' = (IF viewIndex = viewTotal - 1 THEN 0 ELSE viewIndex + 1)
        /\ viewKey' = "up"
            => viewIndex' = (IF viewIndex = 0 THEN viewTotal - 1 ELSE viewIndex - 1)
        /\ viewKey' \in {"up", "down"} /\ viewTotal = 1 => viewIndex' = 0 ]_vars

\* the check list moved up from its first row to the last of four
C17_Witness ==
    viewKind = "check" /\ viewKey = "up" /\ viewTotal = 4 /\ viewIndex = 3

\* C20: after the scroll recompute, when rows can be shown, the offset is
\* within 0 .. max(0, total - rows) and the selected row is one of the rows
\* shown, in the entry browser and in the check list.
C20_SelectionVisible ==
    viewKind \in {"browser", "check"} /\ VisibleRows(viewKind, viewHeight) > 0
    => /\ 0 <= viewScroll
       /\ viewScroll <= Max(0, viewTotal - VisibleRows(viewKind, viewHeight))
       /\ viewScroll <= viewIndex
       /\ viewIndex < viewScroll + VisibleRows(viewKind, viewHeight)

\* the browser went to a shorter list while it was scrolled down
C20_Witness ==
    /\ viewKind = "browser"
    /\ viewKey = "level"
    /\ viewTotal = 2
    /\ viewIndex = 1
    /\ VisibleRows(viewKind, viewHeight) = 1
    /\ viewScroll = 1

(***************************************************************************)
(* Type inference: properties                                              *)
(***************************************************************************)
\* choose_validator has returned
Classified == cvOut # NoOut

RelaxationFactorLinear ==
    /\ cvKey = <<"r", "e", "l", "a", "x", "a", "t", "i", "o", "n", "F", "a", "c", "t", "o", "r">>
    /\ cvValue = <<"l", "i", "n", "e", "a", "r">>

\* C21 as claimed: key 'relaxationFactor' with value 'linear' matches none of
\* the heuristic substrings and is classified as free text with validator
\* non_empty.
C21_RelaxationFactorIsText ==
    Classified /\ RelaxationFactorLinear
    => cvOut = ValidatorAndLabel("non_empty", "text")

\* C21 amended: key 'relaxationFactor' with value 'linear' falls through to
\* the key heuristic, where the substring "on" matches, and is classified as
\* boolean-like with validator bool_flag.
C21_RelaxationFactorIsBoolLike ==
    Classified /\ RelaxationFactorLinear
    => cvOut = ValidatorAndLabel("bool_flag", "boolean-like")

\* 'relaxationFactor' = 'linear' has been classified
C21_Witness == Classified /\ RelaxationFactorLinear /\ cvOut.label = "boolean-like"

\* C22: for every key, a value "( a b c )" with exactly three numeric tokens
\* inside one pair of parentheses is classified as vector with the vector
\* validator, which rejects "(1 2)" and "(1 a 3)".
C22_ThreeNumbersAreVector ==
    Classified /\ cvValue \in ThreeNumeric
    => /\ cvOut = ValidatorAndLabel("vector_values", "vector")
       /\ ~Accepts(cvOut.validator, <<"(", "1", " ", "2", ")">>)
       /\ ~Accepts(cvOut.validator, <<"(", "1", " ", "a", " ", "3", ")">>)

\* key 'someList' with value '(1 2 3)' has been classified
C22_Witness ==
    /\ cvKey = <<"s", "o", "m", "e", "L", "i", "s", "t">>
    /\ cvValue = <<"(", "1", " ", "2", " ", "3", ")">>
    /\ cvOut.label = "vector"

\* rule 1 of choose_validator applies to the value
PassesVectorRule(value) ==
    Contains(value, <<"(">>) /\ Contains(value, <<")">>) /\ vector_values(value)

\* the last whitespace token after replacing semicolons by spaces (<<>> if none)
LastToken(value) ==
    LET tokens == SplitWS(ReplaceChar(value, ";", " "))
    IN  IF tokens = <<>> THEN <<>> ELSE tokens[Len(tokens)]

\* parses as an integer, without "." and without an exponent marker
BareInteger(tok) ==
    IsInt(tok) /\ ~Contains(tok, <<".">>) /\ ~Contains(Lower(tok), <<"e">>)

\* C23: a value that does not pass the vector rule and whose last token is a
\* bare integer is classified as integer whatever the key; the key heuristic
\* decides only when the last token is neither an integer nor a float.
C23_IntegerBeforeKey ==
    Classified /\ ~PassesVectorRule(cvValue)
    => /\ BareInteger(LastToken(cvValue))
           => cvOut = ValidatorAndLabel("as_int", "integer")
       /\ IsFloat(LastToken(cvValue)) /\ ~BareInteger(LastToken(cvValue))
           => cvOut = ValidatorAndLabel("as_float", "float")
       /\ cvOut.label \in {"boolean-like", "text"}
           => ~IsInt(LastToken(cvValue)) /\ ~IsFloat(LastToken(cvValue))

\* key 'nIterations' (heuristic: boolean-like) with value '5' is an integer
C23_Witness ==
    /\ cvKey = <<"n", "I", "t", "e", "r", "a", "t", "i", "o", "n", "s">>
    /\ cvValue = <<"5">>
    /\ GuessValidator(cvKey) = "bool_flag"
    /\ cvOut.label = "integer"


(***************************************************************************)
(* Session: properties                                                     *)
(***************************************************************************)
\* C32: in the root menu with the default key bindings 'q' ends the main
\* loop and 'h' does not: after 'h' the root menu is still waiting for a key.
C32_OnlyQQuitsAtRoot ==
    [][ mpc = "menu"
        => /\ lastKey' = "q" => mpc' = "ended"
           /\ lastKey' = "h" => mpc' = "menu" ]_vars

\* the session has begun: run_tui and the start-up check of _main are done
\* and the main loop has not ended
InSession == mpc \in {"loop", "menu", "screen"}

\* C37: once the session has begun and after every handle_command call,
\* OF_TUI_NO_FOAM is "1" exactly when state.no_foam is true, and
\* state.no_foam is false only if the latest environment check succeeded.
C37_EnvMatchesNoFoam ==
    InSession
    => /\ (env_no_foam = "1") <=> no_foam
       /\ ~no_foam => foamCheck = "ok"

\* C38: consecutive TABs cycle through the suggestions that start with the
\* text typed before the first TAB, in list order, wrapping after the last;
\* and 0 <= cursor <= Len(buffer) in every state of the prompt.
C38_TabCycles ==
    [][ /\ 0 <= cursor' /\ cursor' <= Len(buffer')
        /\ tabRun' > tabRun
            => \E m \in { Matches(CommandSuggestions, tabBase') } :
                  m # <<>> => buffer' = m[((tabRun' - 1) % Len(m)) + 1] ]_vars

====
